---- MODULE Spec2Model ----
(***************************************************************************)
(* Scramble: the game state machine of src/game.js with the player of      *)
(* src/entities.js and the stage table of src/levels.js.                   *)
(*                                                                         *)
(* Numbers that the program keeps as IEEE-754 doubles and that accumulate  *)
(* rounding (player.fuel, game.distance, scrollSpeed, stage length) are    *)
(* kept bit-exact: a double v with 0 <= |v| < 4096 that is a multiple of   *)
(* 2^-56 is the triple <<h, m, l>> with v * 2^56 = h*B^2 + m*B + l,        *)
(* B = 2^23, 0 <= m, l < B (h carries the sign).  Every sum or difference  *)
(* is rounded to 53 significant bits, ties to even, as the hardware does.  *)
(*                                                                         *)
(* Spec and FlightSpec are the state machine alone: what the geometry of   *)
(* the entity collections and of the terrain decides in a frame (which     *)
(* collisions are detected, the safe zone) is an input of the frame, the   *)
(* record env.  SceneSpec is the whole game: the terrain segments and the  *)
(* enemy, ground-target, bullet, bomb and particle collections are the     *)
(* variable world, and env is computed from them.  TerrainSpec is the      *)
(* terrain generator alone and CollisionSpec the bounding-box test alone.  *)
(***************************************************************************)
EXTENDS Integers, Sequences, FiniteSets, TLC

(***************************************************************************)
(* Bounds of the model                                                     *)
(***************************************************************************)
MaxFrames == 1      \* PLAYING frames with freely chosen inputs per behaviour
MaxKills == 1       \* entities the player destroys in one frame
MaxRestarts == 1    \* start()/restart() calls after the first start

(***************************************************************************)
(* IEEE-754 double arithmetic on the fixed-point triples                   *)
(***************************************************************************)
LimbBase == 2^23

Norm(h, m, l) ==
  LET m1 == m + (l \div LimbBase)
  IN <<h + (m1 \div LimbBase), m1 % LimbBase, l % LimbBase>>

\* the number of bits of a non-negative integer below 2^31
BitLen(n) ==
  IF n = 0 THEN 0
  ELSE CHOOSE k \in 1..31 : 2^(k - 1) <= n /\ (k = 31 \/ n < 2^k)

Pow2(k) == 2^k

DNeg(a) == Norm(-a[1], -a[2], -a[3])

\* round a non-negative value to 53 significant bits, ties to even
RoundMag(a) ==
  LET k == BitLen(a[1]) - 7
  IN IF k <= 0 THEN a
     ELSE LET q == Pow2(k)
              rem == a[3] % q
              odd == (a[3] \div q) % 2 = 1
              up == 2 * rem > q \/ (2 * rem = q /\ odd)
          IN Norm(a[1], a[2], a[3] - rem + (IF up THEN q ELSE 0))

Round(a) == IF a[1] < 0 THEN DNeg(RoundMag(DNeg(a))) ELSE RoundMag(a)

DAdd(a, b) == Round(Norm(a[1] + b[1], a[2] + b[2], a[3] + b[3]))
DSub(a, b) == Round(Norm(a[1] - b[1], a[2] - b[2], a[3] - b[3]))

DLe(a, b) ==
  \/ a[1] < b[1]
  \/ a[1] = b[1] /\ a[2] < b[2]
  \/ a[1] = b[1] /\ a[2] = b[2] /\ a[3] <= b[3]
DLt(a, b) == DLe(a, b) /\ a # b
DMax(a, b) == IF DLe(a, b) THEN b ELSE a
DMin(a, b) == IF DLe(a, b) THEN a ELSE b

\* the double of a small non-negative integer
DInt(n) == <<n * 1024, 0, 0>>
DZero == DInt(0)

(***************************************************************************)
(* src/game.js: GameState                                                  *)
(***************************************************************************)
START_SCREEN == "start"
PLAYING == "playing"
STAGE_TRANSITION == "stage_transition"
GAME_OVER == "game_over"
VICTORY == "victory"
PAUSED == "paused"
GameState == {START_SCREEN, PLAYING, STAGE_TRANSITION, GAME_OVER, VICTORY, PAUSED}

(***************************************************************************)
(* src/levels.js: STAGES, getTotalStages, getStage                         *)
(* scrollSpeed: 1.8, 2, 2.2, 2.5, 2.8 as doubles                           *)
(***************************************************************************)
STAGES == <<
  [name |-> "ROCKY CANYON", baseTopHeight |-> 40, baseBottomHeight |-> 80,
   terrainVariation |-> 25,
   scrollSpeed |-> <<1843, 1677721, 5033168>>,
   enemyTypes |-> <<"rocket">>,
   groundTargetTypes |-> <<"fuelTank", "fuelTank", "rocket">>,
   length |-> DInt(1800)],
  [name |-> "ENEMY BASE", baseTopHeight |-> 50, baseBottomHeight |-> 90,
   terrainVariation |-> 35,
   scrollSpeed |-> DInt(2),
   enemyTypes |-> <<"rocket", "ufo">>,
   groundTargetTypes |-> <<"rocket", "base", "fuelTank">>,
   length |-> DInt(2200)],
  [name |-> "MISSILE SILOS", baseTopHeight |-> 60, baseBottomHeight |-> 100,
   terrainVariation |-> 45,
   scrollSpeed |-> <<2252, 6710886, 3355456>>,
   enemyTypes |-> <<"rocket", "ufo", "fighter">>,
   groundTargetTypes |-> <<"rocket", "base", "radar", "fuelTank">>,
   length |-> DInt(2500)],
  [name |-> "NARROW CAVES", baseTopHeight |-> 90, baseBottomHeight |-> 110,
   terrainVariation |-> 50,
   scrollSpeed |-> <<2560, 0, 0>>,
   enemyTypes |-> <<"ufo", "fighter">>,
   groundTargetTypes |-> <<"fuelTank", "radar">>,
   length |-> DInt(2200)],
  [name |-> "FINAL FORTRESS", baseTopHeight |-> 80, baseBottomHeight |-> 100,
   terrainVariation |-> 45,
   scrollSpeed |-> <<2867, 1677721, 5033152>>,
   enemyTypes |-> <<"ufo", "fighter", "bomber">>,
   groundTargetTypes |-> <<"rocket", "base", "radar", "fuelTank">>,
   length |-> DInt(3000)] >>

getTotalStages == Len(STAGES)

getStage(index) ==
  STAGES[(IF index < Len(STAGES) - 1 THEN index ELSE Len(STAGES) - 1) + 1]

(***************************************************************************)
(* src/entities.js: ENEMY_TYPES, GROUND_TARGET_TYPES (the fields the game  *)
(* depends on; shoots is shootChance > 0)                                  *)
(***************************************************************************)
ENEMY_TYPES ==
  [rocket  |-> [health |-> 1, points |-> 50, width |-> 20, height |-> 12,
                behavior |-> "straight", speed |-> 1, waveAmplitude |-> 30,
                shoots |-> FALSE],
   ufo     |-> [health |-> 1, points |-> 100, width |-> 24, height |-> 14,
                behavior |-> "wave", speed |-> 2, waveAmplitude |-> 40,
                shoots |-> TRUE],
   fighter |-> [health |-> 2, points |-> 150, width |-> 22, height |-> 10,
                behavior |-> "straight", speed |-> 3, waveAmplitude |-> 30,
                shoots |-> TRUE],
   bomber  |-> [health |-> 3, points |-> 200, width |-> 28, height |-> 16,
                behavior |-> "wave", speed |-> 1, waveAmplitude |-> 20,
                shoots |-> TRUE]]

GROUND_TARGET_TYPES ==
  [fuelTank |-> [points |-> 150, givesFuel |-> TRUE, fuelAmount |-> 25,
                 width |-> 16, height |-> 20, floatHeight |-> 35,
                 shoots |-> FALSE],
   rocket   |-> [points |-> 80, givesFuel |-> FALSE, fuelAmount |-> 0,
                 width |-> 8, height |-> 24, floatHeight |-> 0,
                 shoots |-> TRUE],
   base     |-> [points |-> 100, givesFuel |-> FALSE, fuelAmount |-> 0,
                 width |-> 24, height |-> 16, floatHeight |-> 0,
                 shoots |-> TRUE],
   radar    |-> [points |-> 120, givesFuel |-> FALSE, fuelAmount |-> 0,
                 width |-> 12, height |-> 18, floatHeight |-> 0,
                 shoots |-> FALSE]]

(***************************************************************************)
(* src/entities.js: Player                                                 *)
(***************************************************************************)
PlayerWidth == 32
PlayerHeight == 16
PlayerStartX == 60
PlayerSpeed == 4
PlayerLives == 3
ShootCooldownMax == 10
BombCooldownMax == 30
InvincibleDuration == 120
MaxFuel == 100
FuelDrainRate == <<51, 1677721, 5033165>>   \* the double 0.05
CrashFuel == 30
CrashInvincibleTimer == 120
StageTransitionFrames == 120

\* this.player = null, before the first start()
NoPlayer == [none |-> TRUE]

NewPlayer(canvas) ==
  [x |-> PlayerStartX, y |-> canvas.height \div 2 - PlayerHeight \div 2,
   lives |-> PlayerLives,
   shootCooldown |-> 0, bombCooldown |-> 0,
   isInvincible |-> FALSE, invincibleTimer |-> 0,
   fuel |-> DInt(MaxFuel)]

\* seeded faults: the drain pauses during invincibility / the fuel is not floored
PlayerFuelDrain_NotWhenInvincible(p) ==
  LET f == DSub(p.fuel, FuelDrainRate)
  IN IF p.isInvincible THEN p
     ELSE [p EXCEPT !.fuel = IF DLe(f, DZero) THEN DZero ELSE f]

PlayerFuelDrain_NoFloor(p) ==
  [p EXCEPT !.fuel = DSub(p.fuel, FuelDrainRate)]

\* Player.update, the fuel drain
PlayerFuelDrain(p) ==
  LET f == DSub(p.fuel, FuelDrainRate)
  IN [p EXCEPT !.fuel = IF DLe(f, DZero) THEN DZero ELSE f]

\* Player.update(input, topBound, bottomBound)
PlayerUpdate(p, input, topBound, bottomBound, canvasWidth) ==
  LET y1 == IF input.up /\ p.y > topBound + 5 THEN p.y - PlayerSpeed ELSE p.y
      y2 == IF input.down /\ y1 + PlayerHeight < bottomBound - 5
              THEN y1 + PlayerSpeed ELSE y1
      x1 == IF input.left /\ p.x > 30 THEN p.x - PlayerSpeed \div 2 ELSE p.x
      x2 == IF input.right /\ 5 * x1 < 2 * canvasWidth
              THEN x1 + PlayerSpeed \div 2 ELSE x1
      sc == IF p.shootCooldown > 0 THEN p.shootCooldown - 1 ELSE p.shootCooldown
      bc == IF p.bombCooldown > 0 THEN p.bombCooldown - 1 ELSE p.bombCooldown
      it == IF p.isInvincible THEN p.invincibleTimer - 1 ELSE p.invincibleTimer
      inv == IF p.isInvincible /\ it <= 0 THEN FALSE ELSE p.isInvincible
  IN PlayerFuelDrain([p EXCEPT !.x = x2, !.y = y2,
                               !.shootCooldown = sc, !.bombCooldown = bc,
                               !.invincibleTimer = it, !.isInvincible = inv])

\* seeded fault: the invincibility test is missing
PlayerHit_IgnoresInvincible(p) ==
  [p EXCEPT !.lives = @ - 1, !.isInvincible = TRUE,
            !.invincibleTimer = InvincibleDuration]

\* seeded fault: the invincibility lasts one frame more
PlayerHit_OneFrameMore(p) ==
  IF p.isInvincible THEN p
  ELSE [p EXCEPT !.lives = @ - 1, !.isInvincible = TRUE,
                 !.invincibleTimer = InvincibleDuration + 1]

\* Player.hit(): the player afterwards; the return value is ~p.isInvincible
PlayerHit(p) ==
  IF p.isInvincible THEN p
  ELSE [p EXCEPT !.lives = @ - 1, !.isInvincible = TRUE,
                 !.invincibleTimer = InvincibleDuration]

\* seeded fault: the fuel is not clamped to maxFuel
PlayerAddFuel_NoClamp(p, amount) ==
  [p EXCEPT !.fuel = DAdd(p.fuel, DInt(amount))]

\* Player.addFuel(amount)
PlayerAddFuel(p, amount) ==
  [p EXCEPT !.fuel = DMin(DInt(MaxFuel), DAdd(p.fuel, DInt(amount)))]

(***************************************************************************)
(* The program state as one value: s.game (Game fields), s.player,         *)
(* s.storage (localStorage['scramble.best']), s.trace (the calls made by   *)
(* the operation in progress, in order) and s.frames (history: the number  *)
(* of updatePlaying calls since start(), since distance was reset and,     *)
(* up to InvincibleDuration, since the last combat hit that took a life    *)
(* with no terrain crash after it).                                        *)
(***************************************************************************)
\* no combat hit has taken a life, or none that is still counted
NoHit == -1

\* the history of a game just started: no frame played, no hit, and the
\* last bullet and the last bomb at least a whole cooldown ago (shot, bomb:
\* PLAYING frames since the last creation, counted up to the cooldown);
\* keys is the input of the last PLAYING frame
NewFrames ==
  [play |-> 0, stage |-> 0, hit |-> NoHit,
   shot |-> ShootCooldownMax, bomb |-> BombCooldownMax,
   keys |-> [up |-> FALSE, down |-> FALSE, left |-> FALSE, right |-> FALSE,
             shoot |-> FALSE, bomb |-> FALSE]]

\* frames.shot and frames.bomb at the start of the next updatePlaying call
FramesSince(n, cooldown) == IF n < cooldown THEN n + 1 ELSE n

\* frames.hit at the start of the next updatePlaying call
FramesSinceHit(hit) ==
  IF hit = NoHit \/ hit >= InvincibleDuration THEN NoHit ELSE hit + 1

Log(s, e) == [s EXCEPT !.trace = Append(@, e)]

\* createExplosion(x, y, color, count): count particles are added
createExplosion(s, count) == Log(s, [call |-> "explosion", count |-> count])

\* Number.prototype.toString of a non-negative integer: its decimal digits
RECURSIVE toString(_)
toString(n) == IF n < 10 THEN <<n>> ELSE Append(toString(n \div 10), n % 10)

\* parseInt of a string of decimal digits
RECURSIVE parseInt(_)
parseInt(str) ==
  IF Len(str) = 1 THEN str[1]
  ELSE 10 * parseInt(SubSeq(str, 1, Len(str) - 1)) + str[Len(str)]

\* localStorage.getItem(STORAGE_KEY) when nothing has been stored: null
NoItem == <<>>

\* parseInt(localStorage.getItem(STORAGE_KEY) || '0')
storedBest(item) == parseInt(IF item = NoItem THEN <<0>> ELSE item)

\* seeded fault: the score is saved whether or not it is a new best
saveBestScore_Always(s) ==
  Log([s EXCEPT !.game.bestScore = s.game.score,
                !.storage = toString(s.game.score)],
      [call |-> "save", value |-> s.game.score])

\* Game.saveBestScore
saveBestScore(s) ==
  IF s.game.score > s.game.bestScore
    THEN Log([s EXCEPT !.game.bestScore = s.game.score,
                       !.storage = toString(s.game.score)],
             [call |-> "save", value |-> s.game.score])
    ELSE s

\* Game.onStateEnter
onStateEnter(s, st) ==
  CASE st = STAGE_TRANSITION ->
         [s EXCEPT !.game.stateTimer = StageTransitionFrames]
    [] st = GAME_OVER -> saveBestScore(s)
    [] st = VICTORY -> saveBestScore(s)
    [] OTHER -> s

\* the default payload of setState, the empty object
EmptyObject == <<>>

\* this.onStateChange(newState, oldState, data): the call is recorded with
\* what the observer finds in the game when it is called
onStateChange(s, newState, oldState, data) ==
  Log(s, [call |-> "setState", new |-> newState, old |-> oldState,
          data |-> data,
          seen |-> [state |-> s.game.state, stateTimer |-> s.game.stateTimer,
                    bestScore |-> s.game.bestScore, storage |-> s.storage]])

\* seeded fault: the observer is notified after the entry actions
setState_EntersFirst(s, newState) ==
  onStateChange(
    onStateEnter([s EXCEPT !.game.state = newState, !.game.stateTimer = 0],
                 newState),
    newState, s.game.state, EmptyObject)

\* Game.setState(newState), data = {}
setState(s, newState) ==
  onStateEnter(
    onStateChange([s EXCEPT !.game.state = newState, !.game.stateTimer = 0],
                  newState, s.game.state, EmptyObject),
    newState)

\* Game.addScore
addScore(s, points) ==
  Log([s EXCEPT !.game.score = @ + points],
      [call |-> "addScore", points |-> points])

\* Game.playerHit
playerHit(s) ==
  LET exploded(s2) ==
        IF s2.player.lives <= 0 THEN setState(s2, GAME_OVER) ELSE s2
      hit(s1) ==
        IF ~s.player.isInvincible THEN exploded(createExplosion(s1, 15)) ELSE s1
  IN hit(Log([s EXCEPT !.player = PlayerHit(s.player),
                       !.frames.hit = IF s.player.isInvincible THEN @ ELSE 0],
             [call |-> "playerHit", wasHit |-> ~s.player.isInvincible,
              before |-> s.player, after |-> PlayerHit(s.player),
              since |-> s.frames.hit]))

\* seeded fault: the crash refills the tank
playerCrash_FullRefuel(s) ==
  LET lives1 == s.player.lives - 1
      p1 == IF lives1 <= 0
              THEN [s.player EXCEPT !.lives = lives1]
              ELSE [s.player EXCEPT
                      !.lives = lives1,
                      !.x = PlayerStartX,
                      !.y = s.game.canvas.height \div 2 - PlayerHeight \div 2,
                      !.isInvincible = TRUE,
                      !.invincibleTimer = CrashInvincibleTimer,
                      !.fuel = DInt(MaxFuel)]
      crashed(s2) == IF lives1 <= 0 THEN setState(s2, GAME_OVER) ELSE s2
  IN crashed(Log([createExplosion(s, 20) EXCEPT !.player = p1,
                                                !.frames.hit = NoHit],
                 [call |-> "playerCrash", before |-> s.player, after |-> p1]))

\* Game.playerCrash
playerCrash(s) ==
  LET lives1 == s.player.lives - 1
      p1 == IF lives1 <= 0
              THEN [s.player EXCEPT !.lives = lives1]
              ELSE [s.player EXCEPT
                      !.lives = lives1,
                      !.x = PlayerStartX,
                      !.y = s.game.canvas.height \div 2 - PlayerHeight \div 2,
                      !.isInvincible = TRUE,
                      !.invincibleTimer = CrashInvincibleTimer,
                      !.fuel = DMax(@, DInt(CrashFuel))]
      crashed(s2) == IF lives1 <= 0 THEN setState(s2, GAME_OVER) ELSE s2
  IN crashed(Log([createExplosion(s, 20) EXCEPT !.player = p1,
                                                !.frames.hit = NoHit],
                 [call |-> "playerCrash", before |-> s.player, after |-> p1]))

\* Game.initStage
initStage(s) ==
  [s EXCEPT !.game.scrollSpeed = getStage(s.game.currentStage).scrollSpeed,
            !.game.distance = DZero,
            !.frames.stage = 0]

\* seeded fault: the stage after the next is entered
advanceStage_SkipsStage(s) ==
  LET s1 == [s EXCEPT !.game.currentStage = @ + 2]
  IN IF s1.game.currentStage >= getTotalStages
       THEN setState(s1, VICTORY)
       ELSE setState(initStage(s1), PLAYING)

\* seeded fault: the next stage is entered without initStage
advanceStage_NoInitStage(s) ==
  LET s1 == [s EXCEPT !.game.currentStage = @ + 1]
  IN IF s1.game.currentStage >= getTotalStages
       THEN setState(s1, VICTORY)
       ELSE setState(s1, PLAYING)

\* seeded fault: the victory is declared one stage late
advanceStage_VictoryLate(s) ==
  LET s1 == [s EXCEPT !.game.currentStage = @ + 1]
  IN IF s1.game.currentStage > getTotalStages
       THEN setState(s1, VICTORY)
       ELSE setState(initStage(s1), PLAYING)

\* Game.advanceStage
advanceStage(s) ==
  LET s1 == [s EXCEPT !.game.currentStage = @ + 1]
  IN IF s1.game.currentStage >= getTotalStages
       THEN setState(s1, VICTORY)
       ELSE setState(initStage(s1), PLAYING)

\* seeded fault: a shot does not start the cooldown
playerShoot_NoCooldown(s) ==
  IF s.player.shootCooldown > 0 THEN s
  ELSE Log([s EXCEPT !.frames.shot = 0], [call |-> "bullet"])

\* Player.shoot / Player.bomb as called from updatePlaying
playerShoot(s) ==
  IF s.player.shootCooldown > 0 THEN s
  ELSE Log([s EXCEPT !.player.shootCooldown = ShootCooldownMax,
                      !.frames.shot = 0],
           [call |-> "bullet"])

playerBomb(s) ==
  IF s.player.bombCooldown > 0 THEN s
  ELSE Log([s EXCEPT !.player.bombCooldown = BombCooldownMax,
                      !.frames.bomb = 0],
           [call |-> "bomb"])

\* one destroyed ground target (bomb: 12 particles, bullet: 10)
TargetDestroyed(s, type, count) ==
  LET cfg == GROUND_TARGET_TYPES[type]
      s1 == createExplosion(addScore(s, cfg.points), count)
  IN IF cfg.givesFuel
       THEN Log([s1 EXCEPT !.player = PlayerAddFuel(@, cfg.fuelAmount)],
                [call |-> "addFuel", amount |-> cfg.fuelAmount])
       ELSE s1

EnemyDestroyed(s, type) ==
  createExplosion(addScore(s, ENEMY_TYPES[type].points), 10)

RECURSIVE EnemiesDestroyed(_, _)
EnemiesDestroyed(s, types) ==
  IF types = <<>> THEN s
  ELSE EnemiesDestroyed(EnemyDestroyed(s, Head(types)), Tail(types))

RECURSIVE TargetsDestroyed(_, _, _)
TargetsDestroyed(s, types, count) ==
  IF types = <<>> THEN s
  ELSE TargetsDestroyed(TargetDestroyed(s, Head(types), count), Tail(types), count)

\* Game.checkCollisions, in the code's category order
checkCollisions(s, env) ==
  LET body(s4) ==
        IF env.bodyHit THEN playerHit(createExplosion(s4, 10)) ELSE s4
      bullet(s3) == IF env.bulletHit THEN playerHit(s3) ELSE s3
  IN body(bullet(
       TargetsDestroyed(
         TargetsDestroyed(EnemiesDestroyed(s, env.enemyKills), env.bombKills, 12),
         env.bulletKills, 10)))

\* TerrainGenerator.getSafeZone for a terrain at the stage's base heights
\* (the safe zone of a frame whose env does not give one)
getSafeZone(s) ==
  LET config == getStage(s.game.currentStage)
  IN [top |-> config.baseTopHeight,
      bottom |-> s.game.canvas.height - config.baseBottomHeight]

\* seeded fault: the terrain crash does not return before the fuel check
updatePlaying_FuelCheckAfterCrash(s, env) ==
  LET stageConfig == getStage(s.game.currentStage)
      safeZone == IF "safeZone" \in DOMAIN env THEN env.safeZone
                  ELSE getSafeZone(s)
      moved(s1) ==
        [s1 EXCEPT !.player =
           PlayerUpdate(@, env.input, safeZone.top, safeZone.bottom,
                        s1.game.canvas.width)]
      shot(s2) == IF env.input.shoot THEN playerShoot(s2) ELSE s2
      bombed(s3) == IF env.input.bomb THEN playerBomb(s3) ELSE s3
      crashed(s5) == IF env.terrainHit THEN playerCrash(s5) ELSE s5
      checked(s6) ==
        IF DLe(s6.player.fuel, DZero) THEN playerCrash(s6)
        ELSE IF DLe(stageConfig.length, s6.game.distance)
               THEN setState(s6, STAGE_TRANSITION)
               ELSE s6
  IN checked(crashed(
       checkCollisions(
         bombed(shot(moved([s EXCEPT !.game.distance = DAdd(@, s.game.scrollSpeed),
                                     !.frames.play = @ + 1,
                                     !.frames.stage = @ + 1,
                                     !.frames.hit = FramesSinceHit(@),
                                     !.frames.shot = FramesSince(@, ShootCooldownMax),
                                     !.frames.bomb = FramesSince(@, BombCooldownMax),
                                     !.frames.keys = env.input]))),
         env)))

\* Game.updatePlaying
updatePlaying(s, env) ==
  LET stageConfig == getStage(s.game.currentStage)
      safeZone == IF "safeZone" \in DOMAIN env THEN env.safeZone
                  ELSE getSafeZone(s)
      moved(s1) ==
        [s1 EXCEPT !.player =
           PlayerUpdate(@, env.input, safeZone.top, safeZone.bottom,
                        s1.game.canvas.width)]
      shot(s2) == IF env.input.shoot THEN playerShoot(s2) ELSE s2
      bombed(s3) == IF env.input.bomb THEN playerBomb(s3) ELSE s3
      checked(s5) ==
        IF env.terrainHit THEN playerCrash(s5)
        ELSE IF DLe(s5.player.fuel, DZero) THEN playerCrash(s5)
        ELSE IF DLe(stageConfig.length, s5.game.distance)
               THEN setState(s5, STAGE_TRANSITION)
               ELSE s5
  IN checked(
       checkCollisions(
         bombed(shot(moved([s EXCEPT !.game.distance = DAdd(@, s.game.scrollSpeed),
                                     !.frames.play = @ + 1,
                                     !.frames.stage = @ + 1,
                                     !.frames.hit = FramesSinceHit(@),
                                     !.frames.shot = FramesSince(@, ShootCooldownMax),
                                     !.frames.bomb = FramesSince(@, BombCooldownMax),
                                     !.frames.keys = env.input]))),
         env))

\* seeded fault: the GAME_OVER and VICTORY cases fall into the PLAYING case
update_TerminalFallsThrough(s, env) ==
  CASE s.game.state \in {PLAYING, GAME_OVER, VICTORY} -> updatePlaying(s, env)
    [] s.game.state = STAGE_TRANSITION ->
         LET s1 == [s EXCEPT !.game.stateTimer = @ - 1]
         IN IF s1.game.stateTimer <= 0 THEN advanceStage(s1) ELSE s1
    [] OTHER -> s

\* seeded fault: the timer of the stage transition is not counted down
update_TimerStuck(s, env) ==
  CASE s.game.state = PLAYING -> updatePlaying(s, env)
    [] s.game.state = STAGE_TRANSITION ->
         IF s.game.stateTimer <= 0 THEN advanceStage(s) ELSE s
    [] OTHER -> s

\* Game.update
update(s, env) ==
  CASE s.game.state = PLAYING -> updatePlaying(s, env)
    [] s.game.state = STAGE_TRANSITION ->
         LET s1 == [s EXCEPT !.game.stateTimer = @ - 1]
         IN IF s1.game.stateTimer <= 0 THEN advanceStage(s1) ELSE s1
    [] OTHER -> s

\* seeded fault: the scroll speed is not taken from the stage
start_KeepsScrollSpeed(s) ==
  LET s1 == [s EXCEPT !.game.score = 0,
                      !.game.currentStage = 0,
                      !.game.distance = DZero,
                      !.player = NewPlayer(s.game.canvas),
                      !.frames = NewFrames]
      s2 == setState(s1, PLAYING)
  IN IF s2.game.running THEN s2
     ELSE [s2 EXCEPT !.game.running = TRUE, !.game.callbacks = @ + 1]

\* seeded fault: every start requests an animation frame
start_SchedulesAgain(s) ==
  LET s1 == [s EXCEPT !.game.score = 0,
                      !.game.currentStage = 0,
                      !.game.distance = DZero,
                      !.game.scrollSpeed = getStage(0).scrollSpeed,
                      !.player = NewPlayer(s.game.canvas),
                      !.frames = NewFrames]
      s2 == setState(s1, PLAYING)
  IN [s2 EXCEPT !.game.running = TRUE, !.game.callbacks = @ + 1]

\* Game.start
start(s) ==
  LET s1 == [s EXCEPT !.game.score = 0,
                      !.game.currentStage = 0,
                      !.game.distance = DZero,
                      !.game.scrollSpeed = getStage(0).scrollSpeed,
                      !.player = NewPlayer(s.game.canvas),
                      !.frames = NewFrames]
      s2 == setState(s1, PLAYING)
  IN IF s2.game.running THEN s2
     ELSE [s2 EXCEPT !.game.running = TRUE, !.game.callbacks = @ + 1]

\* Game.pause
pause(s) ==
  IF s.game.state = PLAYING THEN setState(s, PAUSED)
  ELSE IF s.game.state = PAUSED THEN setState(s, PLAYING)
  ELSE s

\* Game.constructor
NewGame(canvas, item) ==
  [state |-> START_SCREEN, stateTimer |-> 0,
   score |-> 0, bestScore |-> storedBest(item),
   currentStage |-> 0, distance |-> DZero, scrollSpeed |-> DInt(2),
   running |-> FALSE, callbacks |-> 0, canvas |-> canvas]

(***************************************************************************)
(* The inputs of one frame                                                 *)
(***************************************************************************)
NoInput ==
  [up |-> FALSE, down |-> FALSE, left |-> FALSE, right |-> FALSE,
   shoot |-> FALSE, bomb |-> FALSE]

Inputs ==
  {NoInput,
   [NoInput EXCEPT !.up = TRUE, !.left = TRUE, !.shoot = TRUE],
   [NoInput EXCEPT !.down = TRUE, !.right = TRUE, !.bomb = TRUE]}

Range(q) == {q[i] : i \in 1..Len(q)}

SeqsUpTo(S, n) == UNION {[1..k -> S] : k \in 0..n}

\* what the player's bullets and bombs destroy in one frame of a stage
KillOptions(stage) ==
  LET E == Range(getStage(stage).enemyTypes)
      T == Range(getStage(stage).groundTargetTypes)
  IN {k \in [enemyKills : SeqsUpTo(E, MaxKills),
             bombKills : SeqsUpTo(T, MaxKills),
             bulletKills : SeqsUpTo(T, MaxKills)] :
        Len(k.enemyKills) + Len(k.bombKills) + Len(k.bulletKills) <= MaxKills}

Envs(stage) ==
  {[input |-> i, enemyKills |-> k.enemyKills, bombKills |-> k.bombKills,
    bulletKills |-> k.bulletKills, bulletHit |-> bh, bodyHit |-> eh,
    terrainHit |-> th] :
     i \in Inputs, k \in KillOptions(stage),
     bh \in BOOLEAN, eh \in BOOLEAN, th \in BOOLEAN}

QuietEnv ==
  [input |-> NoInput, enemyKills |-> <<>>, bombKills |-> <<>>,
   bulletKills |-> <<>>, bulletHit |-> FALSE, bodyHit |-> FALSE,
   terrainHit |-> FALSE]
CrashEnv == [QuietEnv EXCEPT !.terrainHit = TRUE]
HitEnv == [QuietEnv EXCEPT !.bulletHit = TRUE]
PickupEnv == [QuietEnv EXCEPT !.bulletKills = <<"fuelTank">>]

\* one pass of Game.gameLoop, called by the browser, which has taken it from
\* its list of animation-frame callbacks: update() (render changes no game
\* state) and requestAnimationFrame
gameLoop(s, env) ==
  LET called == [s EXCEPT !.trace = <<>>, !.game.callbacks = @ - 1]
  IN IF ~s.game.running THEN called
     ELSE [update(called, env) EXCEPT !.game.callbacks = @ + 1]

\* a display refresh: the browser calls the n callbacks that were requested
\* before it
RECURSIVE runCallbacks(_, _, _)
runCallbacks(s, env, n) ==
  IF n = 0 THEN s ELSE runCallbacks(gameLoop(s, env), env, n - 1)

displayFrame(s, env) == runCallbacks(s, env, s.game.callbacks)

\* n consecutive frames with the same inputs
RECURSIVE Frames(_, _, _)
Frames(s, env, n) ==
  IF n = 0 THEN s
  ELSE IF n = 1 THEN gameLoop(s, env)
  ELSE LET half == Frames(s, env, n \div 2)
       IN IF half.game.state \in GameState   \* half is computed first
            THEN Frames(half, env, n - n \div 2)
            ELSE half

RECURSIVE RunScript(_, _)
RunScript(s, script) ==
  IF script = <<>> THEN s
  ELSE LET first == Frames(s, Head(script).env, Head(script).n)
       IN IF first.game.state \in GameState
            THEN RunScript(first, Tail(script))
            ELSE first

\* n times the same segments
RECURSIVE Times(_, _)
Times(n, script) == IF n = 0 THEN <<>> ELSE script \o Times(n - 1, script)

\* Histories of play, from start(), that end one frame before something
\* happens
LastLifeStageEnd ==      \* two terrain crashes; 1000 frames of stage 1 flown
  << [env |-> CrashEnv, n |-> 2], [env |-> QuietEnv, n |-> 998] >>
FuelLow ==               \* undisturbed flight for 2000 PLAYING frames
  << [env |-> QuietEnv, n |-> 2120] >>
LastLifeFuelLow ==       \* the same after two terrain crashes
  << [env |-> CrashEnv, n |-> 2], [env |-> QuietEnv, n |-> 2118] >>
Invincible ==            \* a terrain crash 60 frames ago
  << [env |-> CrashEnv, n |-> 1], [env |-> QuietEnv, n |-> 60] >>
InvincibleEnding ==      \* a terrain crash 119 frames ago
  << [env |-> CrashEnv, n |-> 1], [env |-> QuietEnv, n |-> 119] >>
HitRecently ==           \* a hostile bullet hit the player 60 frames ago
  << [env |-> HitEnv, n |-> 1], [env |-> QuietEnv, n |-> 60] >>
HitLongAgo ==            \* a hostile bullet hit the player 119 frames ago
  << [env |-> HitEnv, n |-> 1], [env |-> QuietEnv, n |-> 119] >>
LastStageEnd ==          \* a fuel tank every 500 frames, to the last stage's end
  Times(11, << [env |-> QuietEnv, n |-> 499], [env |-> PickupEnv, n |-> 1] >>)
    \o << [env |-> QuietEnv, n |-> 169] >>

Scripts ==
  {LastLifeStageEnd, FuelLow, LastLifeFuelLow, Invincible, InvincibleEnding,
   HitRecently, HitLongAgo, LastStageEnd}

(***************************************************************************)
(* src/entities.js: Entity.  An entity is a record with the doubles x, y,  *)
(* the sizes width, height and the flag active.                            *)
(***************************************************************************)
\* seeded fault: the comparisons are not strict
collidesWith_Inclusive(a, b) ==
  IF ~a.active \/ ~b.active THEN FALSE
  ELSE /\ DLe(a.x, DAdd(b.x, DInt(b.width)))
       /\ DLe(b.x, DAdd(a.x, DInt(a.width)))
       /\ DLe(a.y, DAdd(b.y, DInt(b.height)))
       /\ DLe(b.y, DAdd(a.y, DInt(a.height)))

\* Entity.collidesWith(other), called on a
collidesWith(a, b) ==
  IF ~a.active \/ ~b.active THEN FALSE
  ELSE /\ DLt(a.x, DAdd(b.x, DInt(b.width)))
       /\ DLt(b.x, DAdd(a.x, DInt(a.width)))
       /\ DLt(a.y, DAdd(b.y, DInt(b.height)))
       /\ DLt(b.y, DAdd(a.y, DInt(a.height)))

(***************************************************************************)
(* src/levels.js: TerrainGenerator.  A terrain is the record of its        *)
(* canvasWidth, canvasHeight, stage (the index of its config), noiseOffset *)
(* and segments; a segment has the double x and its two heights.           *)
(*                                                                         *)
(* noise(x) is a sum of sines of x and noiseOffset with values in [-1, 1]. *)
(* It is represented by a few functions of x with values -1, 0 and 1, one  *)
(* per noiseOffset; for these values the products noise * terrainVariation *)
(* and noise * terrainVariation * 0.8 are integers, exact in doubles.      *)
(***************************************************************************)
SegmentWidth == 4

NoiseOffsets == {"level", "raised", "lowered", "rolling"}

\* the integer part of a double
Floor(a) == a[1] \div 1024

noise(noiseOffset, x) ==
  CASE noiseOffset = "level" -> 0
    [] noiseOffset = "raised" -> 1
    [] noiseOffset = "lowered" -> -1
    [] noiseOffset = "rolling" -> ((Floor(x) \div 64) % 3) - 1

\* TerrainGenerator.createSegment(x, worldX)
createSegment(t, x, worldX) ==
  LET config == getStage(t.stage)
      n == noise(t.noiseOffset, worldX)
  IN [x |-> x,
      topHeight |-> config.baseTopHeight + n * config.terrainVariation,
      bottomHeight |-> config.baseBottomHeight
                         + n * ((config.terrainVariation * 4) \div 5)]

\* Math.ceil(canvasWidth / segmentWidth) + 10
numSegments(canvasWidth) ==
  (canvasWidth + SegmentWidth - 1) \div SegmentWidth + 10

\* new TerrainGenerator(canvasWidth, canvasHeight, stageConfig), with
\* generateInitialTerrain
NewTerrain(canvas, stage, noiseOffset) ==
  LET t == [canvasWidth |-> canvas.width, canvasHeight |-> canvas.height,
            stage |-> stage, noiseOffset |-> noiseOffset, segments |-> <<>>]
  IN [t EXCEPT !.segments =
        [i \in 1..numSegments(canvas.width) |->
           createSegment(t, DInt((i - 1) * SegmentWidth),
                         DInt((i - 1) * SegmentWidth))]]

\* the segments after TerrainSegment.update and the filter
scrolledSegments(t, scrollSpeed) ==
  LET moved == [i \in 1..Len(t.segments) |->
                  [t.segments[i] EXCEPT !.x = DSub(@, scrollSpeed)]]
      onScreen(seg) == DLt(DInt(-10), DAdd(seg.x, DInt(SegmentWidth)))
  IN SelectSeq(moved, onScreen)

\* the push of TerrainGenerator.update: kept are the segments left by the
\* filter, the new segment lies step after the last of them
pushSegment(t, kept, step, worldDistance) ==
  IF kept # <<>> /\ DLt(kept[Len(kept)].x, DInt(t.canvasWidth + 50))
    THEN LET newX == DAdd(kept[Len(kept)].x, DInt(step))
         IN [t EXCEPT !.segments =
               Append(kept, createSegment(t, newX, DAdd(worldDistance, newX)))]
    ELSE [t EXCEPT !.segments = kept]

\* seeded fault: the new segment is placed two widths after the last
terrainUpdate_WideStep(t, scrollSpeed, worldDistance) ==
  pushSegment(t, scrolledSegments(t, scrollSpeed), 2 * SegmentWidth,
              worldDistance)

\* seeded fault: the new segment's heights are taken at its screen x
terrainUpdate_ScreenX(t, scrollSpeed, worldDistance) ==
  pushSegment(t, scrolledSegments(t, scrollSpeed), SegmentWidth, DZero)

\* TerrainGenerator.update(scrollSpeed, worldDistance)
terrainUpdate(t, scrollSpeed, worldDistance) ==
  pushSegment(t, scrolledSegments(t, scrollSpeed), SegmentWidth, worldDistance)

\* no terrain and no collections: this.terrain = null
NoWorld == [none |-> TRUE]

\* no collidesWith call has been set up
NoProbe == [done |-> FALSE]

\* TerrainSegment.collidesWithEntity(entity, canvasHeight)
collidesWithEntity(seg, entity, canvasHeight) ==
  LET overX == /\ DLt(entity.x, DAdd(seg.x, DInt(SegmentWidth)))
               /\ DLt(seg.x, DAdd(entity.x, DInt(entity.width)))
      bottomY == canvasHeight - seg.bottomHeight
  IN IF ~entity.active THEN "none"
     ELSE IF DLt(entity.y, DInt(seg.topHeight)) /\ overX THEN "top"
     ELSE IF DLt(DInt(bottomY), DAdd(entity.y, DInt(entity.height))) /\ overX
       THEN "bottom"
     ELSE "none"

\* TerrainGenerator.checkCollision(entity): the first segment's answer
terrainCheckCollision(t, entity) ==
  LET answer(i) == collidesWithEntity(t.segments[i], entity, t.canvasHeight)
      first(hits) ==
        IF hits = {} THEN "none"
        ELSE answer(CHOOSE i \in hits : \A j \in hits : i <= j)
  IN first({i \in 1..Len(t.segments) : answer(i) # "none"})

\* getBoundsAt falling back to the last segment of the terrain
getBoundsAt_LastSegment(t, x) ==
  LET covering == {i \in 1..Len(t.segments) :
                     /\ DLe(t.segments[i].x, x)
                     /\ DLt(x, DAdd(t.segments[i].x, DInt(SegmentWidth)))}
      chosen == IF covering = {} THEN Len(t.segments)
                ELSE CHOOSE i \in covering : \A j \in covering : i <= j
  IN IF chosen = 0
       THEN [top |-> getStage(t.stage).baseTopHeight,
             bottom |-> t.canvasHeight - getStage(t.stage).baseBottomHeight]
       ELSE [top |-> t.segments[chosen].topHeight,
             bottom |-> t.canvasHeight - t.segments[chosen].bottomHeight]

\* TerrainGenerator.getBoundsAt(x)
getBoundsAt(t, x) ==
  LET covering == {i \in 1..Len(t.segments) :
                     /\ DLe(t.segments[i].x, x)
                     /\ DLt(x, DAdd(t.segments[i].x, DInt(SegmentWidth)))}
  IN IF covering = {}
       THEN [top |-> getStage(t.stage).baseTopHeight,
             bottom |-> t.canvasHeight - getStage(t.stage).baseBottomHeight]
       ELSE LET first == CHOOSE i \in covering : \A j \in covering : i <= j
            IN [top |-> t.segments[first].topHeight,
                bottom |-> t.canvasHeight - t.segments[first].bottomHeight]

\* f(lo) + ... + f(hi)
RECURSIVE SumOver(_, _, _)
SumOver(f(_), lo, hi) ==
  IF lo > hi THEN 0
  ELSE IF lo = hi THEN f(lo)
  ELSE LET mid == (lo + hi) \div 2
       IN SumOver(f, lo, mid) + SumOver(f, mid + 1, hi)

\* TerrainGenerator.getSafeZone: the averages avgTop / count and
\* avgBottom / count as the fractions sumTop / count and sumBottom / count
terrainGetSafeZone(t) ==
  LET visible == {i \in 1..Len(t.segments) :
                    /\ DLe(DZero, t.segments[i].x)
                    /\ DLe(t.segments[i].x, DInt(t.canvasWidth))}
      top(i) == IF i \in visible THEN t.segments[i].topHeight ELSE 0
      bottom(i) == IF i \in visible
                     THEN t.canvasHeight - t.segments[i].bottomHeight ELSE 0
  IN IF visible = {}
       THEN [sumTop |-> getStage(t.stage).baseTopHeight,
             sumBottom |-> t.canvasHeight - getStage(t.stage).baseBottomHeight,
             count |-> 1]
       ELSE [sumTop |-> SumOver(top, 1, Len(t.segments)),
             sumBottom |-> SumOver(bottom, 1, Len(t.segments)),
             count |-> Cardinality(visible)]

\* The player's y is an integer, so y > top + 5 holds for the average top
\* exactly when it holds for its integer part, and y + height < bottom - 5
\* exactly when it holds for the average bottom rounded up.
playerBounds(zone) ==
  [top |-> zone.sumTop \div zone.count,
   bottom |-> -((-zone.sumBottom) \div zone.count)]

(***************************************************************************)
(* src/entities.js: Enemy, GroundTarget, Bullet, Bomb.  x and y are        *)
(* doubles; id numbers the entities in the order of their construction,    *)
(* age (history) counts the calls of the entity's update.                  *)
(***************************************************************************)
Gravity == <<153, 5033164, 6710886>>     \* the double 0.15

\* new Enemy(x, y, type, config), y an integer
NewEnemy(id, x, y, type) ==
  LET config == ENEMY_TYPES[type]
  IN [id |-> id, x |-> DInt(x), y |-> DInt(y),
      width |-> config.width, height |-> config.height, active |-> TRUE,
      type |-> type, health |-> config.health, points |-> config.points,
      behavior |-> config.behavior, speed |-> config.speed,
      shoots |-> config.shoots, startY |-> y,
      waveAmplitude |-> config.waveAmplitude, age |-> 0]

\* new GroundTarget(x, y, type, config)
NewGroundTarget(id, x, y, type) ==
  LET config == GROUND_TARGET_TYPES[type]
  IN [id |-> id, x |-> DInt(x), y |-> DInt(y),
      width |-> config.width, height |-> config.height, active |-> TRUE,
      type |-> type, points |-> config.points,
      givesFuel |-> config.givesFuel, fuelAmount |-> config.fuelAmount,
      shoots |-> config.shoots, age |-> 0]

\* new Bullet(x, y, velocityX, velocityY, isPlayerBullet)
NewBullet(id, x, y, velocityX, velocityY, isPlayerBullet) ==
  [id |-> id, x |-> x, y |-> y, width |-> 8, height |-> 4, active |-> TRUE,
   velocityX |-> velocityX, velocityY |-> velocityY,
   isPlayerBullet |-> isPlayerBullet, damage |-> 1, age |-> 0]

\* new Bomb(x, y, velocityX, velocityY)
NewBomb(id, x, y, velocityX, velocityY) ==
  [id |-> id, x |-> x, y |-> y, width |-> 6, height |-> 6, active |-> TRUE,
   velocityX |-> velocityX, velocityY |-> DInt(velocityY), damage |-> 2,
   age |-> 0]

\* the player as the entity that collidesWith and checkCollision see
PlayerEntity(p) ==
  [x |-> DInt(p.x), y |-> DInt(p.y), width |-> PlayerWidth,
   height |-> PlayerHeight, active |-> TRUE]

\* Player.shoot() and Player.bomb(), when the cooldown allows
PlayerBullet(id, p) ==
  NewBullet(id, DInt(p.x + PlayerWidth), DInt(p.y + PlayerHeight \div 2 - 2),
            10, 0, TRUE)

PlayerBomb(id, p) ==
  NewBomb(id, DInt(p.x + PlayerWidth \div 2), DInt(p.y + PlayerHeight), 3, 4)

\* Enemy.shoot() and GroundTarget.shoot()
EnemyBullet(id, e) ==
  NewBullet(id, e.x, DSub(DAdd(e.y, DInt(e.height \div 2)), DInt(2)),
            -6, 0, FALSE)

GroundTargetBullet(id, g) ==
  NewBullet(id, DAdd(g.x, DInt(g.width \div 2)), g.y, 0, -5, FALSE)

\* seeded fault: an enemy is deactivated as soon as it has left the screen
EnemyUpdate_OffAtEdge(e, scrollSpeed, wave) ==
  LET x1 == DSub(e.x, DAdd(scrollSpeed, DInt(e.speed)))
      y1 == IF e.behavior = "wave"
              THEN DInt(e.startY + wave * e.waveAmplitude) ELSE e.y
  IN [e EXCEPT !.x = x1, !.y = y1, !.age = @ + 1,
               !.active = ~DLt(DAdd(x1, DInt(e.width)), DZero)]

\* Enemy.update(scrollSpeed); wave is the sine of the enemy's angle in this
\* frame, one of -1, 0, 1 (no enemy type dives or chases)
EnemyUpdate(e, scrollSpeed, wave) ==
  LET x1 == DSub(e.x, DAdd(scrollSpeed, DInt(e.speed)))
      y1 == IF e.behavior = "wave"
              THEN DInt(e.startY + wave * e.waveAmplitude) ELSE e.y
  IN [e EXCEPT !.x = x1, !.y = y1, !.age = @ + 1,
               !.active = ~DLt(DAdd(x1, DInt(e.width)), DInt(-50))]

\* Enemy.takeDamage(amount)
EnemyTakeDamage(e, amount) ==
  [e EXCEPT !.health = @ - amount,
            !.active = IF e.health - amount <= 0 THEN FALSE ELSE @]

\* GroundTarget.update(scrollSpeed)
GroundTargetUpdate(g, scrollSpeed) ==
  LET x1 == DSub(g.x, scrollSpeed)
  IN [g EXCEPT !.x = x1, !.age = @ + 1,
               !.active = ~DLt(DAdd(x1, DInt(g.width)), DInt(-50))]

\* Bullet.update(canvasWidth, canvasHeight)
BulletUpdate(b, canvas) ==
  LET x1 == DAdd(b.x, DInt(b.velocityX))
      y1 == DAdd(b.y, DInt(b.velocityY))
      off == \/ DLt(x1, DInt(-20)) \/ DLt(DInt(canvas.width + 20), x1)
             \/ DLt(y1, DInt(-20)) \/ DLt(DInt(canvas.height + 20), y1)
  IN [b EXCEPT !.x = x1, !.y = y1, !.age = @ + 1,
               !.active = IF off THEN FALSE ELSE @]

\* Bomb.update(canvasWidth, canvasHeight)
BombUpdate(b, canvas) ==
  LET x1 == DAdd(b.x, DInt(b.velocityX))
      vy1 == DAdd(b.velocityY, Gravity)
      y1 == DAdd(b.y, vy1)
      off == \/ DLt(x1, DInt(-20)) \/ DLt(DInt(canvas.width + 20), x1)
             \/ DLt(DInt(canvas.height + 20), y1)
  IN [b EXCEPT !.x = x1, !.y = y1, !.velocityY = vy1, !.age = @ + 1,
               !.active = IF off THEN FALSE ELSE @]

(***************************************************************************)
(* src/game.js: the terrain and the entity collections of a Game, the      *)
(* record w: terrain, enemies, groundTargets, bullets, bombs (sequences of *)
(* entities), particles (the sequence of the particles' remaining frames   *)
(* of life), nextId (history: entities constructed so far), events         *)
(* (history: what the last frame did to the entities, in order) and        *)
(* awarded (history: the ids of the entities whose points were added to    *)
(* the score in this run).                                                 *)
(*                                                                         *)
(* rnd holds the keys and the Math.random() draws of a frame: input,       *)
(* enemy and target (what SpawnManager spawns), shooters (the ids of the   *)
(* entities whose shouldShoot() is true), wave and particleLife.           *)
(***************************************************************************)
\* the collections of the constructor: no terrain, nothing in the arrays
EmptyWorld ==
  [terrain |-> [none |-> TRUE], enemies |-> <<>>, groundTargets |-> <<>>,
   bullets |-> <<>>, bombs |-> <<>>, particles |-> <<>>,
   nextId |-> 1, events |-> <<>>, awarded |-> <<>>, spawnStage |-> 0]

Emit(w, e) == [w EXCEPT !.events = Append(@, e)]

Active(entity) == entity.active

\* seeded fault: the particles are aged but never removed
updateParticles_KeepsSpent(w) ==
  [w EXCEPT !.particles = [i \in 1..Len(w.particles) |-> w.particles[i] - 1]]

\* Game.updateParticles: a particle lives 25 + random * 20 frames
updateParticles(w) ==
  LET aged == [i \in 1..Len(w.particles) |-> w.particles[i] - 1]
      alive(life) == life > 0
  IN [w EXCEPT !.particles = SelectSeq(aged, alive)]

\* this.particles.push(...createExplosion(x, y, color, count))
pushExplosion(w, count, life) ==
  Emit([w EXCEPT !.particles = @ \o [i \in 1..count |-> life]],
       [call |-> "explosion", count |-> count])

\* seeded fault: the margin of 10 is applied to the top of the zone only
spawnEnemy_NoBottomMargin(w, canvas, draw) ==
  LET height == ENEMY_TYPES[draw.type].height
      placed(zone) ==
        LET minY == -((-zone.sumTop) \div zone.count) + 10
            maxY == zone.sumBottom \div zone.count - height
            y == IF maxY > minY THEN minY + (draw.dy % (maxY - minY)) ELSE minY
        IN IF zone.sumBottom - zone.sumTop <= (height + 10) * zone.count
             THEN Emit(w, [call |-> "noSpawn", type |-> draw.type])
             ELSE Emit([w EXCEPT
                          !.enemies = Append(@, NewEnemy(w.nextId, canvas.width + 50,
                                                         y, draw.type)),
                          !.nextId = @ + 1],
                       [call |-> "spawn", id |-> w.nextId, kind |-> "enemy",
                        type |-> draw.type, x |-> canvas.width + 50, y |-> y])
  IN placed(terrainGetSafeZone(w.terrain))

\* SpawnManager.spawnEnemy(terrain): y = minY + random * (maxY - minY), one
\* of the integers of that interval; null when maxY <= minY
spawnEnemy(w, canvas, draw) ==
  LET height == ENEMY_TYPES[draw.type].height
      placed(zone) ==
        LET minY == -((-zone.sumTop) \div zone.count) + 10
            maxY == zone.sumBottom \div zone.count - height - 10
            y == IF maxY > minY THEN minY + (draw.dy % (maxY - minY)) ELSE minY
        IN IF zone.sumBottom - zone.sumTop <= (height + 20) * zone.count
             THEN Emit(w, [call |-> "noSpawn", type |-> draw.type])
             ELSE Emit([w EXCEPT
                          !.enemies = Append(@, NewEnemy(w.nextId, canvas.width + 50,
                                                         y, draw.type)),
                          !.nextId = @ + 1],
                       [call |-> "spawn", id |-> w.nextId, kind |-> "enemy",
                        type |-> draw.type, x |-> canvas.width + 50, y |-> y])
  IN placed(terrainGetSafeZone(w.terrain))

\* SpawnManager.spawnGroundTarget(terrain)
spawnGroundTarget(w, canvas, draw) ==
  LET config == GROUND_TARGET_TYPES[draw.type]
      x == canvas.width + 50
      y == getBoundsAt(w.terrain, DInt(x)).bottom - config.height
             - config.floatHeight
  IN Emit([w EXCEPT
             !.groundTargets = Append(@, NewGroundTarget(w.nextId, x, y, draw.type)),
             !.nextId = @ + 1],
          [call |-> "spawn", id |-> w.nextId, kind |-> "target",
           type |-> draw.type, x |-> x, y |-> y])

\* SpawnManager.update and the two pushes of updatePlaying
spawn(w, canvas, rnd) ==
  LET targets(w1) ==
        IF rnd.target.spawn THEN spawnGroundTarget(w1, canvas, rnd.target) ELSE w1
  IN targets(IF rnd.enemy.spawn THEN spawnEnemy(w, canvas, rnd.enemy) ELSE w)

\* Game.updateEnemies, from the i-th enemy on
RECURSIVE updateEnemiesFrom(_, _, _, _)
updateEnemiesFrom(w, i, scrollSpeed, rnd) ==
  LET shot(w2, e) ==
        IF e.shoots /\ e.id \in rnd.shooters
          THEN [w2 EXCEPT !.bullets = Append(@, EnemyBullet(w2.nextId, e)),
                          !.nextId = @ + 1]
          ELSE w2
      moved(e) ==
        shot(IF e.active THEN [w EXCEPT !.enemies[i] = e]
             ELSE Emit([w EXCEPT !.enemies[i] = e],
                       [call |-> "offScreen", id |-> e.id]),
             e)
  IN IF i > Len(w.enemies)
       THEN [w EXCEPT !.enemies = SelectSeq(@, Active)]
     ELSE IF ~w.enemies[i].active
       THEN updateEnemiesFrom(w, i + 1, scrollSpeed, rnd)
     ELSE updateEnemiesFrom(moved(EnemyUpdate(w.enemies[i], scrollSpeed, rnd.wave)),
                            i + 1, scrollSpeed, rnd)

updateEnemies(w, scrollSpeed, rnd) == updateEnemiesFrom(w, 1, scrollSpeed, rnd)

\* Game.updateGroundTargets, from the i-th target on
RECURSIVE updateGroundTargetsFrom(_, _, _, _)
updateGroundTargetsFrom(w, i, scrollSpeed, rnd) ==
  LET shot(w2, g) ==
        IF g.shoots /\ g.id \in rnd.shooters
          THEN [w2 EXCEPT !.bullets = Append(@, GroundTargetBullet(w2.nextId, g)),
                          !.nextId = @ + 1]
          ELSE w2
      moved(g) ==
        shot(IF g.active THEN [w EXCEPT !.groundTargets[i] = g]
             ELSE Emit([w EXCEPT !.groundTargets[i] = g],
                       [call |-> "offScreen", id |-> g.id]),
             g)
  IN IF i > Len(w.groundTargets)
       THEN [w EXCEPT !.groundTargets = SelectSeq(@, Active)]
     ELSE IF ~w.groundTargets[i].active
       THEN updateGroundTargetsFrom(w, i + 1, scrollSpeed, rnd)
     ELSE updateGroundTargetsFrom(
            moved(GroundTargetUpdate(w.groundTargets[i], scrollSpeed)),
            i + 1, scrollSpeed, rnd)

updateGroundTargets(w, scrollSpeed, rnd) ==
  updateGroundTargetsFrom(w, 1, scrollSpeed, rnd)

\* seeded fault: the bullets are moved and none is removed
updateBullets_KeepsInactive(w, canvas) ==
  [w EXCEPT !.bullets =
     [i \in 1..Len(w.bullets) |-> BulletUpdate(w.bullets[i], canvas)]]

\* Game.updateBullets
updateBullets(w, canvas) ==
  LET moved == [i \in 1..Len(w.bullets) |-> BulletUpdate(w.bullets[i], canvas)]
  IN [w EXCEPT !.bullets = SelectSeq(moved, Active)]

\* seeded fault: a bomb that hits the terrain is left active
updateBomb_NoDetonation(w, i, canvas, rnd) ==
  LET moved(b) ==
        Emit([w EXCEPT !.bombs[i] = b],
             [call |-> "bombMoved", bomb |-> b,
              wall |-> terrainCheckCollision(w.terrain, b)])
  IN moved(BombUpdate(w.bombs[i], canvas))

\* Game.updateBombs, the loop body for the i-th bomb
updateBomb(w, i, canvas, rnd) ==
  LET checked(b, wall) ==
        IF wall # "none"
          THEN pushExplosion(
                 Emit([w EXCEPT !.bombs[i] = [b EXCEPT !.active = FALSE]],
                      [call |-> "bombMoved", bomb |-> b, wall |-> wall]),
                 6, rnd.particleLife)
          ELSE Emit([w EXCEPT !.bombs[i] = b],
                    [call |-> "bombMoved", bomb |-> b, wall |-> wall])
      moved(b) == checked(b, terrainCheckCollision(w.terrain, b))
  IN moved(BombUpdate(w.bombs[i], canvas))

\* Game.updateBombs, from the i-th bomb on
RECURSIVE updateBombsFrom(_, _, _, _)
updateBombsFrom(w, i, canvas, rnd) ==
  IF i > Len(w.bombs)
    THEN [w EXCEPT !.bombs = SelectSeq(@, Active)]
    ELSE updateBombsFrom(updateBomb(w, i, canvas, rnd), i + 1, canvas, rnd)

updateBombs(w, canvas, rnd) == updateBombsFrom(w, 1, canvas, rnd)

\* the first active entity of list that a collides with, or 0
FirstHit(a, list) ==
  LET first(hits) ==
        IF hits = {} THEN 0 ELSE CHOOSE j \in hits : \A k \in hits : j <= k
  IN first({j \in 1..Len(list) : list[j].active /\ collidesWith(a, list[j])})

\* seeded fault: every hit of a player bullet on an enemy is scored
bulletVsEnemies_ScoresEveryHit(w, i) ==
  LET damaged(bullet, j, enemy) ==
        Emit([w EXCEPT !.bullets[i].active = FALSE, !.enemies[j] = enemy],
             [call |-> "bulletEnemy", by |-> bullet.id, id |-> enemy.id,
              type |-> enemy.type, points |-> enemy.points,
              health |-> enemy.health, destroyed |-> TRUE])
      hit(bullet, j) ==
        IF ~bullet.isPlayerBullet \/ ~bullet.active \/ j = 0 THEN w
        ELSE damaged(bullet, j, EnemyTakeDamage(w.enemies[j], bullet.damage))
  IN hit(w.bullets[i], FirstHit(w.bullets[i], w.enemies))

\* Game.checkCollisions, player bullets vs enemies: the i-th bullet
bulletVsEnemies(w, i) ==
  LET damaged(bullet, j, enemy) ==
        Emit([w EXCEPT !.bullets[i].active = FALSE, !.enemies[j] = enemy],
             [call |-> "bulletEnemy", by |-> bullet.id, id |-> enemy.id,
              type |-> enemy.type, points |-> enemy.points,
              health |-> enemy.health, destroyed |-> ~enemy.active])
      hit(bullet, j) ==
        IF ~bullet.isPlayerBullet \/ ~bullet.active \/ j = 0 THEN w
        ELSE damaged(bullet, j, EnemyTakeDamage(w.enemies[j], bullet.damage))
  IN hit(w.bullets[i], FirstHit(w.bullets[i], w.enemies))

\* bombs vs ground targets: the i-th bomb
bombVsTargets(w, i) ==
  LET hit(bomb, j) ==
        IF ~bomb.active \/ j = 0 THEN w
        ELSE Emit([w EXCEPT !.bombs[i].active = FALSE,
                            !.groundTargets[j].active = FALSE],
                  [call |-> "bombTarget", by |-> bomb.id,
                   id |-> w.groundTargets[j].id, type |-> w.groundTargets[j].type,
                   points |-> w.groundTargets[j].points, destroyed |-> TRUE])
  IN hit(w.bombs[i], FirstHit(w.bombs[i], w.groundTargets))

\* player bullets vs ground targets: the i-th bullet
bulletVsTargets(w, i) ==
  LET hit(bullet, j) ==
        IF ~bullet.isPlayerBullet \/ ~bullet.active \/ j = 0 THEN w
        ELSE Emit([w EXCEPT !.bullets[i].active = FALSE,
                            !.groundTargets[j].active = FALSE],
                  [call |-> "bulletTarget", by |-> bullet.id,
                   id |-> w.groundTargets[j].id, type |-> w.groundTargets[j].type,
                   points |-> w.groundTargets[j].points, destroyed |-> TRUE])
  IN hit(w.bullets[i], FirstHit(w.bullets[i], w.groundTargets))

\* enemy bullets vs player: the first one that hits
bulletsVsPlayer(w, pe) ==
  LET first(hits) ==
        IF hits = {} THEN w
        ELSE LET i == CHOOSE i \in hits : \A k \in hits : i <= k
             IN Emit([w EXCEPT !.bullets[i].active = FALSE],
                     [call |-> "bulletPlayer", by |-> w.bullets[i].id])
  IN first({i \in 1..Len(w.bullets) :
              /\ ~w.bullets[i].isPlayerBullet /\ w.bullets[i].active
              /\ collidesWith(w.bullets[i], pe)})

\* player vs enemies: the first enemy the player collides with
playerVsEnemies(w, pe) ==
  LET hit(j) ==
        IF j = 0 THEN w
        ELSE Emit([w EXCEPT !.enemies[j].active = FALSE],
                  [call |-> "bodyCollision", id |-> w.enemies[j].id])
  IN hit(FirstHit(pe, w.enemies))

\* the loop of one category over the projectiles i, i + 1, ...
RECURSIVE bulletsVsEnemiesFrom(_, _)
bulletsVsEnemiesFrom(w, i) ==
  IF i > Len(w.bullets) THEN w
  ELSE bulletsVsEnemiesFrom(bulletVsEnemies(w, i), i + 1)

RECURSIVE bombsVsTargetsFrom(_, _)
bombsVsTargetsFrom(w, i) ==
  IF i > Len(w.bombs) THEN w
  ELSE bombsVsTargetsFrom(bombVsTargets(w, i), i + 1)

RECURSIVE bulletsVsTargetsFrom(_, _)
bulletsVsTargetsFrom(w, i) ==
  IF i > Len(w.bullets) THEN w
  ELSE bulletsVsTargetsFrom(bulletVsTargets(w, i), i + 1)

\* seeded fault: the bullets are tried on the ground targets before the bombs
collide_BulletsBeforeBombs(w, pe) ==
  playerVsEnemies(
    bulletsVsPlayer(
      bombsVsTargetsFrom(
        bulletsVsTargetsFrom(
          bulletsVsEnemiesFrom(w, 1), 1), 1), pe), pe)

\* Game.checkCollisions: what it does to the collections, with the player
\* at pe
collide(w, pe) ==
  playerVsEnemies(
    bulletsVsPlayer(
      bulletsVsTargetsFrom(
        bombsVsTargetsFrom(
          bulletsVsEnemiesFrom(w, 1), 1), 1), pe), pe)

\* the ids of the entities that the events destroyed for points
RECURSIVE AwardedIds(_)
AwardedIds(events) ==
  IF events = <<>> THEN <<>>
  ELSE IF Head(events).call \in {"bulletEnemy", "bombTarget", "bulletTarget"}
            /\ Head(events).destroyed
    THEN <<Head(events).id>> \o AwardedIds(Tail(events))
    ELSE AwardedIds(Tail(events))

\* the types of the entities that the events called name destroyed
RECURSIVE Destroyed(_, _)
Destroyed(events, name) ==
  IF events = <<>> THEN <<>>
  ELSE IF Head(events).call = name /\ Head(events).destroyed
    THEN <<Head(events).type>> \o Destroyed(Tail(events), name)
    ELSE Destroyed(Tail(events), name)

Happened(events, name) == \E i \in 1..Len(events) : events[i].call = name

(***************************************************************************)
(* The whole game: s is the state-machine record and w the collections.    *)
(* Each operation returns the pair [s |-> ..., w |-> ...].                 *)
(***************************************************************************)
\* the explosions that the state machine's calls pushed, in order
RECURSIVE pushExplosions(_, _, _)
pushExplosions(w, calls, life) ==
  IF calls = <<>> THEN w
  ELSE IF Head(calls).call = "explosion"
    THEN pushExplosions(pushExplosion(w, Head(calls).count, life),
                        Tail(calls), life)
    ELSE pushExplosions(w, Tail(calls), life)

\* updatePlaying's input.shoot and input.bomb on the collections
firedBullet(w, p, rnd) ==
  IF rnd.input.shoot /\ p.shootCooldown = 0
    THEN Emit([w EXCEPT !.bullets = Append(@, PlayerBullet(w.nextId, p)),
                        !.nextId = @ + 1],
              [call |-> "fired", id |-> w.nextId])
    ELSE w

droppedBomb(w, p, rnd) ==
  IF rnd.input.bomb /\ p.bombCooldown = 0
    THEN Emit([w EXCEPT !.bombs = Append(@, PlayerBomb(w.nextId, p)),
                        !.nextId = @ + 1],
              [call |-> "dropped", id |-> w.nextId])
    ELSE w

\* addScore for what checkCollisions destroyed
recordAwards(w) == [w EXCEPT !.awarded = @ \o AwardedIds(w.events)]

\* seeded fault: the collisions are resolved before the entities are moved
playingWorld_CollidesFirst(s, w, p, rnd) ==
  recordAwards(
    updateBombs(
      updateBullets(
        updateGroundTargets(
          updateEnemies(
            collide(
              spawn(droppedBomb(firedBullet(w, p, rnd), p, rnd),
                    s.game.canvas, rnd),
              PlayerEntity(p)),
            s.game.scrollSpeed, rnd),
          s.game.scrollSpeed, rnd),
        s.game.canvas),
      s.game.canvas, rnd))

\* Game.updatePlaying on the collections, up to checkCollisions; p is the
\* player after Player.update
playingWorld(s, w, p, rnd) ==
  recordAwards(
    collide(
      updateBombs(
        updateBullets(
          updateGroundTargets(
            updateEnemies(
              spawn(droppedBomb(firedBullet(w, p, rnd), p, rnd),
                    s.game.canvas, rnd),
              s.game.scrollSpeed, rnd),
            s.game.scrollSpeed, rnd),
          s.game.canvas),
        s.game.canvas, rnd),
      PlayerEntity(p)))

\* what checkCollisions and the terrain check report to the state machine
frameEnv(w, p, safeZone, rnd) ==
  [input |-> rnd.input,
   enemyKills |-> Destroyed(w.events, "bulletEnemy"),
   bombKills |-> Destroyed(w.events, "bombTarget"),
   bulletKills |-> Destroyed(w.events, "bulletTarget"),
   bulletHit |-> Happened(w.events, "bulletPlayer"),
   bodyHit |-> Happened(w.events, "bodyCollision"),
   terrainHit |-> terrainCheckCollision(w.terrain, PlayerEntity(p)) # "none",
   safeZone |-> safeZone]

\* the rest of updatePlaying, from the call named on: w1 is the world with
\* the scrolled terrain, p the player after Player.update, w2 the world
\* after checkCollisions, s1 the state at the end
frameEnded(s1, w2, rnd) ==
  [s |-> s1, w |-> pushExplosions(w2, s1.trace, rnd.particleLife)]

frameCollided(s, w2, p, safeZone, rnd) ==
  frameEnded(updatePlaying(s, frameEnv(w2, p, safeZone, rnd)), w2, rnd)

frameFlown(s, w1, p, safeZone, rnd) ==
  frameCollided(s, playingWorld(s, w1, p, rnd), p, safeZone, rnd)

frameBounded(s, w1, safeZone, rnd) ==
  frameFlown(s, w1,
             PlayerUpdate(s.player, rnd.input, safeZone.top, safeZone.bottom,
                          s.game.canvas.width),
             safeZone, rnd)

frameScrolled(s, w1, rnd) ==
  frameBounded(s, w1, playerBounds(terrainGetSafeZone(w1.terrain)), rnd)

\* seeded fault: the player is bounded by the safe zone of the frame before
playingFrame_StaleSafeZone(s, w, rnd) ==
  frameBounded(s,
               [w EXCEPT !.terrain =
                  terrainUpdate(@, s.game.scrollSpeed,
                                DAdd(s.game.distance, s.game.scrollSpeed))],
               playerBounds(terrainGetSafeZone(w.terrain)), rnd)

\* Game.updatePlaying
playingFrame(s, w, rnd) ==
  frameScrolled(s,
                [w EXCEPT !.terrain =
                   terrainUpdate(@, s.game.scrollSpeed,
                                 DAdd(s.game.distance, s.game.scrollSpeed))],
                rnd)

\* seeded fault: the enemies of the stage before are kept
initStageWorld_KeepsEnemies(w, canvas, stage, noiseOffset) ==
  [w EXCEPT !.terrain = NewTerrain(canvas, stage, noiseOffset),
            !.spawnStage = stage,
            !.groundTargets = <<>>,
            !.bullets = <<>>, !.bombs = <<>>]

\* Game.initStage on the collections: a new terrain and a new spawn manager
\* (spawnStage: the stage of its config), the particles stay
initStageWorld(w, canvas, stage, noiseOffset) ==
  [w EXCEPT !.terrain = NewTerrain(canvas, stage, noiseOffset),
            !.spawnStage = stage,
            !.enemies = <<>>, !.groundTargets = <<>>,
            !.bullets = <<>>, !.bombs = <<>>]

\* a frame in which the state machine alone acts; a stage transition that
\* ends calls initStage
idleFrame(s, s1, w, rnd) ==
  [s |-> s1,
   w |-> IF s.game.state = STAGE_TRANSITION /\ s1.game.state = PLAYING
           THEN initStageWorld(w, s1.game.canvas, s1.game.currentStage,
                               rnd.noiseOffset)
           ELSE w]

\* seeded fault: the bullets keep flying while the game is paused
sceneUpdate_PausedBulletsFly(s, w, rnd) ==
  IF s.game.state = PLAYING
    THEN playingFrame([s EXCEPT !.trace = <<>>],
                      updateParticles([w EXCEPT !.events = <<>>]), rnd)
  ELSE IF s.game.state = PAUSED
    THEN [s |-> update([s EXCEPT !.trace = <<>>], QuietEnv),
          w |-> updateBullets(updateParticles([w EXCEPT !.events = <<>>]),
                              s.game.canvas)]
  ELSE idleFrame(s, update([s EXCEPT !.trace = <<>>], QuietEnv),
                 updateParticles([w EXCEPT !.events = <<>>]), rnd)

\* Game.update, one pass of Game.gameLoop
sceneUpdate(s, w, rnd) ==
  IF s.game.state = PLAYING
    THEN playingFrame([s EXCEPT !.trace = <<>>],
                      updateParticles([w EXCEPT !.events = <<>>]), rnd)
    ELSE idleFrame(s, update([s EXCEPT !.trace = <<>>], QuietEnv),
                   updateParticles([w EXCEPT !.events = <<>>]), rnd)

\* seeded fault: the particles of the run before are kept
sceneStart_KeepsParticles(s, w, noiseOffset) ==
  [s |-> start(s),
   w |-> [EmptyWorld EXCEPT
            !.terrain = NewTerrain(s.game.canvas, 0, noiseOffset),
            !.particles = w.particles,
            !.nextId = w.nextId]]

\* Game.start
sceneStart(s, w, noiseOffset) ==
  [s |-> start(s),
   w |-> [EmptyWorld EXCEPT
            !.terrain = NewTerrain(s.game.canvas, 0, noiseOffset),
            !.nextId = w.nextId]]

\* Game.pause
scenePause(s, w) == [s |-> pause(s), w |-> w]

\* the draws of a frame in which nothing is spawned and nothing shoots
QuietRnd ==
  [input |-> NoInput,
   enemy |-> [spawn |-> FALSE, type |-> "rocket", dy |-> 0],
   target |-> [spawn |-> FALSE, type |-> "rocket"],
   shooters |-> {}, wave |-> 0, particleLife |-> 25, noiseOffset |-> "level"]

Keys(keys) == [QuietRnd EXCEPT !.input = keys]
KeyUp == [NoInput EXCEPT !.up = TRUE]
KeyDown == [NoInput EXCEPT !.down = TRUE]
KeyShoot == [NoInput EXCEPT !.shoot = TRUE]
KeyBomb == [NoInput EXCEPT !.bomb = TRUE]

(***************************************************************************)
(* src/unnamed/part_000: the Nostr integration of the page, the record n   *)
(* of item (localStorage['scramble.nostr.player.v1']), tools (the module   *)
(* variable nostrTools is set), calls (the ensurePlayer calls made, each   *)
(* with its position pc, its result and, as history, the item found in     *)
(* storage when it returned), keys (history: generateSecretKey calls so    *)
(* far), sets (history: what each NostrPlayer.set of ensurePlayer          *)
(* replaced) and publish (the publishEvent call).                          *)
(*                                                                         *)
(* An async function runs until its next await; each action of the model   *)
(* is one such run.  What the nostr-tools library and the network do (the  *)
(* import, Relay.connect, relay.publish) is an input of the step that      *)
(* resumes after them; relay.close() returns.                              *)
(***************************************************************************)
\* localStorage.getItem gives null
NoStored == [none |-> TRUE]

\* JSON.stringify / JSON.parse of a player object
JSONstringify(playerObject) == [json |-> playerObject]
JSONparse(raw) == raw.json

\* NostrPlayer.get(), null as NoStored
NostrPlayerGet(n) == IF n.item = NoStored THEN NoStored ELSE JSONparse(n.item)

\* NostrPlayer.set(player)
NostrPlayerSet(n, playerObject) == [n EXCEPT !.item = JSONstringify(playerObject)]

\* the player object that ensurePlayer builds from the secret key sk
EphemeralPlayer(sk) == [privkey |-> sk, pubkey |-> sk, isExtension |-> FALSE]

\* no publishEvent call has been made
NoPublish == [pc |-> "idle"]

\* the page before its script has run
NoNostr ==
  [item |-> NoStored, tools |-> FALSE, calls |-> <<>>, keys |-> 0,
   sets |-> <<>>, publish |-> NoPublish]

\* ensurePlayer() up to its await: the stored player is returned, or
\* loadNostrTools is called, which returns nostrTools or starts the import
ensurePlayer(n) ==
  LET found == NostrPlayerGet(n)
  IN IF found # NoStored
       THEN [n EXCEPT !.calls = Append(@, [pc |-> "done", result |-> found,
                                            stored |-> n.item])]
       ELSE [n EXCEPT !.calls =
               Append(@, [pc |-> IF n.tools THEN "tools" ELSE "import",
                          result |-> NoStored, stored |-> NoStored])]

\* loadNostrTools after its await: the import has settled
loadNostrTools(n, c, imported) ==
  IF imported
    THEN [n EXCEPT !.tools = TRUE, !.calls[c].pc = "tools"]
    ELSE [n EXCEPT !.calls[c].pc = "rejected"]

\* ensurePlayer after its await: a key is generated (the keys are numbered
\* in the order of their generation), the player is stored and returned
ensurePlayerResumed(n, c) ==
  LET sk == n.keys + 1
      stored == NostrPlayerSet(n, EphemeralPlayer(sk))
  IN [stored EXCEPT
        !.keys = sk,
        !.sets = Append(@, [call |-> c, replaced |-> n.item]),
        !.calls[c] = [pc |-> "done", result |-> EphemeralPlayer(sk),
                      stored |-> stored.item]]

\* publishEvent(signedEvent, relays) up to its await of loadNostrTools
publishEvent(n, relays) ==
  [n EXCEPT !.publish = [pc |-> "load", relays |-> relays, i |-> 1,
                         results |-> <<>>, attempts |-> <<>>,
                         outcomes |-> <<>>]]

\* the for loop of publishEvent at relay i: Relay.connect(url) is called
\* and awaited, or the results are returned
publishNext(r) ==
  IF r.i > Len(r.relays) THEN [r EXCEPT !.pc = "returned"]
  ELSE [r EXCEPT !.pc = "connect", !.attempts = Append(@, r.relays[r.i])]

\* publishEvent after loadNostrTools: results = [] and the loop begins
publishLoaded(r, imported) ==
  IF imported THEN publishNext(r) ELSE [r EXCEPT !.pc = "rejected"]

\* results.push({ url, success: false, error }) of the catch block
publishFailed(r) ==
  publishNext([r EXCEPT
                 !.results = Append(@, [url |-> r.relays[r.i], success |-> FALSE]),
                 !.i = @ + 1])

\* seeded fault: a relay that cannot be reached ends the loop
publishConnected_GivesUp(r, connected) ==
  IF connected
    THEN [r EXCEPT !.pc = "publish",
                   !.outcomes = Append(@, [connect |-> TRUE, publish |-> FALSE])]
    ELSE [r EXCEPT !.pc = "returned",
                   !.results = Append(@, [url |-> r.relays[r.i],
                                          success |-> FALSE]),
                   !.outcomes = Append(@, [connect |-> FALSE, publish |-> FALSE])]

\* publishEvent after await Relay.connect(url): relay.publish is called and
\* awaited, or the catch block runs
publishConnected(r, connected) ==
  IF connected
    THEN [r EXCEPT !.pc = "publish",
                   !.outcomes = Append(@, [connect |-> TRUE, publish |-> FALSE])]
    ELSE publishFailed([r EXCEPT
           !.outcomes = Append(@, [connect |-> FALSE, publish |-> FALSE])])

\* publishEvent after await relay.publish(signedEvent): relay.close() and
\* results.push({ url, success: true }), or the catch block
publishPublished(r, published) ==
  IF published
    THEN publishNext([r EXCEPT
           !.outcomes[Len(r.outcomes)].publish = TRUE,
           !.results = Append(@, [url |-> r.relays[r.i], success |-> TRUE]),
           !.i = @ + 1])
    ELSE publishFailed(r)

(***************************************************************************)
(* State                                                                   *)
(***************************************************************************)
VARIABLES
  game,      \* the Game object's fields
  player,    \* game.player
  storage,   \* localStorage['scramble.best']
  trace,     \* the calls made by the last operation
  frames,    \* history: updatePlaying calls since start() / in this stage
  op,        \* the last operation
  budget,    \* PLAYING frames with free inputs taken so far
  restarts,  \* start() calls made on a started game
  world,     \* game.terrain and the entity collections (SceneSpec, TerrainSpec)
  probe,     \* two entities and what collidesWith returned (CollisionSpec)
  agenda,    \* the frames still to be played of the script chosen (SceneSpec)
  nostr      \* the page's Nostr integration (PublishSpec, PlayerSpec)

vars == <<game, player, storage, trace, frames, op, budget, restarts,
          world, probe, agenda, nostr>>

Cur == [game |-> game, player |-> player, storage |-> storage,
        trace |-> <<>>, frames |-> frames]

Becomes(s) ==
  /\ game' = s.game
  /\ player' = s.player
  /\ storage' = s.storage
  /\ trace' = s.trace
  /\ frames' = s.frames
  /\ UNCHANGED <<world, probe, agenda, nostr>>

Canvases == {[width |-> 800, height |-> 400]}
StoredBest == {NoItem, <<1, 0, 0>>}

Init ==
  /\ \E c \in Canvases, b \in StoredBest :
        /\ game = NewGame(c, b)
        /\ storage = b
  /\ player = NoPlayer
  /\ trace = <<>>
  /\ frames = NewFrames
  /\ op = "new"
  /\ budget = 0
  /\ restarts = 0
  /\ world = NoWorld
  /\ probe = NoProbe
  /\ agenda = <<>>
  /\ nostr = NoNostr

\* start() / restart(), called by the page in any state
Start ==
  /\ game.state = START_SCREEN \/ restarts < MaxRestarts
  /\ Becomes(start(Cur))
  /\ op' = "start"
  /\ restarts' = IF game.state = START_SCREEN THEN restarts ELSE restarts + 1
  /\ UNCHANGED budget

\* a fresh game is started and played as one of the Scripts says
Play ==
  /\ game.state = START_SCREEN
  /\ \E script \in Scripts : Becomes(RunScript(start(Cur), script))
  /\ op' = "play"
  /\ UNCHANGED <<budget, restarts>>

\* one display frame in PLAYING, its inputs chosen freely
UpdatePlaying ==
  /\ game.running
  /\ game.state = PLAYING
  /\ budget < MaxFrames
  /\ \E env \in Envs(game.currentStage) : Becomes(gameLoop(Cur, env))
  /\ op' = "update"
  /\ budget' = budget + 1
  /\ UNCHANGED restarts

\* one display frame in any other state
UpdateOther ==
  /\ game.running
  /\ game.state # PLAYING
  /\ Becomes(gameLoop(Cur, QuietEnv))
  /\ op' = "update"
  /\ UNCHANGED <<budget, restarts>>

\* pause(), called by the page in any state
Pause ==
  /\ Becomes(pause(Cur))
  /\ op' = "pause"
  /\ UNCHANGED <<budget, restarts>>

Next == Start \/ Play \/ UpdatePlaying \/ UpdateOther \/ Pause

Spec == Init /\ [][Next]_vars

(***************************************************************************)
(* Undisturbed flight: the game is started once and every PLAYING frame    *)
(* has idle keys, no collision of any kind and no pickup.                  *)
(***************************************************************************)
FirstStart ==
  /\ game.state = START_SCREEN
  /\ Becomes(start(Cur))
  /\ op' = "start"
  /\ UNCHANGED <<budget, restarts>>

QuietFrame ==
  /\ game.running
  /\ Becomes(gameLoop(Cur, QuietEnv))
  /\ op' = "update"
  /\ UNCHANGED <<budget, restarts>>

FlightNext == FirstStart \/ QuietFrame

FlightSpec == Init /\ [][FlightNext]_vars

(***************************************************************************)
(* The bounding-box test alone: two entities at any of a few positions     *)
(* (integers and doubles that round when added) with any of a few sizes,   *)
(* and collidesWith called both ways round.                                *)
(***************************************************************************)
GameNotStarted ==
  /\ game = NewGame([width |-> 800, height |-> 400], NoItem)
  /\ storage = NoItem
  /\ player = NoPlayer
  /\ trace = <<>>
  /\ frames = NewFrames
  /\ op = "new"
  /\ budget = 0
  /\ restarts = 0
  /\ agenda = <<>>

gameVars == <<game, player, storage, trace, frames, op, budget, restarts,
              agenda>>

ProbeXs == {DInt(0), DInt(4), <<7475, 1677721, 5033152>>}    \* 0, 4, 7.3
ProbeYs == {DInt(0), <<-1844, 6710886, 3355440>>}            \* 0, -1.8
ProbeWidths == {0, 4, 8}
ProbeHeights == {0, 4}

ProbeEntities ==
  [x : ProbeXs, y : ProbeYs, width : ProbeWidths, height : ProbeHeights,
   active : BOOLEAN]

CollisionInit ==
  /\ GameNotStarted
  /\ world = NoWorld
  /\ nostr = NoNostr
  /\ \E a \in ProbeEntities, b \in ProbeEntities :
        probe = [done |-> FALSE, a |-> a, b |-> b, ab |-> FALSE, ba |-> FALSE]

Collide ==
  /\ ~probe.done
  /\ probe' = [probe EXCEPT !.done = TRUE,
                            !.ab = collidesWith(probe.a, probe.b),
                            !.ba = collidesWith(probe.b, probe.a)]
  /\ UNCHANGED <<gameVars, world, nostr>>

CollisionNext == Collide

CollisionSpec == CollisionInit /\ [][CollisionNext]_vars

(***************************************************************************)
(* The terrain generator alone: a terrain is constructed for a stage and   *)
(* updated frame after frame with the stage's scroll speed and the         *)
(* distance flown, as updatePlaying does.                                  *)
(***************************************************************************)
MaxTerrainUpdates == 30

TerrainCanvases == {[width |-> 800, height |-> 400],
                    [width |-> 102, height |-> 400]}

TerrainInit ==
  /\ GameNotStarted
  /\ probe = NoProbe
  /\ nostr = NoNostr
  /\ \E canvas \in TerrainCanvases, stage \in 0..(getTotalStages - 1),
        noiseOffset \in NoiseOffsets :
        world = [terrain |-> NewTerrain(canvas, stage, noiseOffset),
                 distance |-> DZero, updates |-> 0]

TerrainUpdate ==
  /\ world.updates < MaxTerrainUpdates
  /\ LET scrollSpeed == getStage(world.terrain.stage).scrollSpeed
         distance == DAdd(world.distance, scrollSpeed)
     IN world' = [terrain |-> terrainUpdate(world.terrain, scrollSpeed, distance),
                  distance |-> distance,
                  updates |-> world.updates + 1]
  /\ UNCHANGED <<gameVars, probe, nostr>>

TerrainNext == TerrainUpdate

TerrainSpec == TerrainInit /\ [][TerrainNext]_vars

(***************************************************************************)
(* The whole game: start()/restart(), pause() and the frames of the game   *)
(* loop, with the terrain and the collections as state, on a narrow canvas *)
(* (102 x 400, few terrain segments), on a wide one (200 x 400) and on a   *)
(* short one (102 x 190, where raised terrain leaves a corridor of 25).  A *)
(* game is started and played frame by frame as one of the scripts of its  *)
(* canvas says, or started and played freely for MaxSceneFrames PLAYING    *)
(* frames.                                                                 *)
(***************************************************************************)
MaxSceneFrames == 1

NarrowCanvas == [width |-> 102, height |-> 400]
WideCanvas == [width |-> 200, height |-> 400]
ShortCanvas == [width |-> 102, height |-> 190]
SceneCanvases == {NarrowCanvas, WideCanvas, ShortCanvas}

Spawning(type, dy) ==
  [QuietRnd EXCEPT !.enemy = [spawn |-> TRUE, type |-> type, dy |-> dy]]
SpawningTarget(type, keys) ==
  [QuietRnd EXCEPT !.target = [spawn |-> TRUE, type |-> type], !.input = keys]

\* histories of play, from start(), that end one frame before something
\* happens
BombFalling ==          \* a bomb dropped near the ground, about to strike it
  << [rnd |-> Keys(KeyDown), n |-> 20], [rnd |-> Keys(KeyBomb), n |-> 1],
     [rnd |-> QuietRnd, n |-> 4] >>
BombLeavingScreen ==    \* a bomb about to strike the ground past the right edge
  << [rnd |-> Keys(KeyDown), n |-> 6], [rnd |-> Keys(KeyBomb), n |-> 1],
     [rnd |-> QuietRnd, n |-> 14] >>
EnemyInRange ==         \* a rocket at the player's height, a bullet before it
  << [rnd |-> Spawning("rocket", 140), n |-> 1], [rnd |-> QuietRnd, n |-> 9],
     [rnd |-> Keys(KeyShoot), n |-> 1] >>
EnemyAtPlayer ==        \* the same rocket about to touch the player
  << [rnd |-> Spawning("rocket", 140), n |-> 1], [rnd |-> QuietRnd, n |-> 20] >>
TankInRange ==          \* a fuel tank, a bullet before it
  << [rnd |-> SpawningTarget("fuelTank", KeyDown), n |-> 1],
     [rnd |-> Keys(KeyDown), n |-> 16], [rnd |-> Keys(KeyShoot), n |-> 1] >>
TankUnderBomb ==        \* a fuel tank and a bomb about to meet
  << [rnd |-> SpawningTarget("fuelTank", NoInput), n |-> 1],
     [rnd |-> QuietRnd, n |-> 9], [rnd |-> Keys(KeyBomb), n |-> 1],
     [rnd |-> QuietRnd, n |-> 9] >>
StageEndingArmed ==     \* the end of stage 1, a bullet and a bomb on their way
  << [rnd |-> QuietRnd, n |-> 990], [rnd |-> Keys(KeyShoot), n |-> 1],
     [rnd |-> Keys(KeyBomb), n |-> 1], [rnd |-> QuietRnd, n |-> 8] >>
StageEnding ==          \* the last frame of stage 1, a rocket on the screen
  << [rnd |-> QuietRnd, n |-> 990], [rnd |-> Spawning("rocket", 0), n |-> 1],
     [rnd |-> QuietRnd, n |-> 9] >>

RocketFiring ==         \* a ground rocket's bullet rising under the player
  << [rnd |-> SpawningTarget("rocket", NoInput), n |-> 1],
     [rnd |-> QuietRnd, n |-> 34],
     [rnd |-> [QuietRnd EXCEPT !.shooters = {1}], n |-> 1],
     [rnd |-> QuietRnd, n |-> 16] >>
EnemyLeaving ==         \* a rocket above the player, at the left edge
  << [rnd |-> Spawning("rocket", 0), n |-> 1], [rnd |-> QuietRnd, n |-> 78] >>
FighterInRange ==       \* stage 3: a fighter (health 2), a bullet before it
  << [rnd |-> QuietRnd, n |-> 2341], [rnd |-> Spawning("fighter", 120), n |-> 1],
     [rnd |-> QuietRnd, n |-> 4], [rnd |-> Keys(KeyShoot), n |-> 1] >>

FuelRescue ==           \* stage 2: the last drop of fuel, a bullet before a tank
  << [rnd |-> QuietRnd, n |-> 2101],
     [rnd |-> SpawningTarget("fuelTank", KeyDown), n |-> 1],
     [rnd |-> Keys(KeyDown), n |-> 13], [rnd |-> QuietRnd, n |-> 4],
     [rnd |-> Keys(KeyShoot), n |-> 1] >>
CeilingFlight ==        \* over rolling terrain: as high as the safe zone allowed
  << [rnd |-> QuietRnd, n |-> 48], [rnd |-> Keys(KeyUp), n |-> 38],
     [rnd |-> QuietRnd, n |-> 40] >>

LostGame ==             \* 50 points, two lives lost, a third rocket at the player
  << [rnd |-> Spawning("rocket", 140), n |-> 1], [rnd |-> QuietRnd, n |-> 9],
     [rnd |-> Keys(KeyShoot), n |-> 1], [rnd |-> QuietRnd, n |-> 8],
     [rnd |-> Spawning("rocket", 140), n |-> 1], [rnd |-> QuietRnd, n |-> 129],
     [rnd |-> Spawning("rocket", 140), n |-> 1], [rnd |-> QuietRnd, n |-> 129],
     [rnd |-> Spawning("rocket", 140), n |-> 1], [rnd |-> QuietRnd, n |-> 20] >>

Pickup ==               \* a fuel tank is spawned and shot, in 19 frames
  << [rnd |-> SpawningTarget("fuelTank", NoInput), n |-> 1],
     [rnd |-> QuietRnd, n |-> 16], [rnd |-> Keys(KeyShoot), n |-> 1],
     [rnd |-> QuietRnd, n |-> 1] >>
Quiet(n) == << [rnd |-> QuietRnd, n |-> n] >>
FinalStageEnding ==     \* the last frame of stage 5, fuel tanks shot on the way
  << [rnd |-> Keys(KeyDown), n |-> 14] >> \o Quiet(987) \o Quiet(120)
  \o Pickup \o Quiet(481) \o Pickup \o Quiet(481) \o Pickup \o Quiet(81)
  \o Quiet(120)
  \o Pickup \o Quiet(481) \o Pickup \o Quiet(481) \o Pickup \o Quiet(118)
  \o Quiet(120)
  \o Quiet(500) \o Pickup \o Quiet(361) \o Quiet(120)
  \o Pickup \o Quiet(1052)

BulletAtTwo ==          \* a bullet fired at a rocket that flies before a ground rocket
  << [rnd |-> Keys(KeyDown), n |-> 1],
     [rnd |-> SpawningTarget("rocket", KeyDown), n |-> 1],
     [rnd |-> Keys(KeyDown), n |-> 9],
     [rnd |-> [Spawning("rocket", 247) EXCEPT !.input = KeyDown], n |-> 1],
     [rnd |-> Keys(KeyDown), n |-> 16], [rnd |-> Keys(KeyShoot), n |-> 1] >>
BombAndBullet ==        \* a bomb and a bullet reach a fuel tank in the same frame
  << [rnd |-> SpawningTarget("fuelTank", KeyDown), n |-> 1],
     [rnd |-> Keys(KeyDown), n |-> 16], [rnd |-> QuietRnd, n |-> 17],
     [rnd |-> Keys(KeyBomb), n |-> 1], [rnd |-> Keys(KeyShoot), n |-> 1] >>

RocketsInARow ==        \* a rocket has hit the player, the next is about to
  << [rnd |-> Spawning("rocket", 140), n |-> 1], [rnd |-> QuietRnd, n |-> 9],
     [rnd |-> Spawning("rocket", 140), n |-> 1], [rnd |-> QuietRnd, n |-> 20] >>
BombOverRocket ==       \* a bomb falls onto a rocket passing below the player
  << [rnd |-> Spawning("rocket", 170), n |-> 1], [rnd |-> QuietRnd, n |-> 14],
     [rnd |-> Keys(KeyBomb), n |-> 1], [rnd |-> QuietRnd, n |-> 6] >>
TargetLeaving ==        \* a fuel tank about to leave the screen on the left
  << [rnd |-> SpawningTarget("fuelTank", NoInput), n |-> 1],
     [rnd |-> QuietRnd, n |-> 122] >>
OverTarget ==           \* the player flies through a ground rocket
  << [rnd |-> SpawningTarget("rocket", KeyDown), n |-> 1],
     [rnd |-> Keys(KeyDown), n |-> 34] >>

SceneScripts ==
  {BombFalling, BombLeavingScreen, EnemyInRange, EnemyAtPlayer, TankInRange,
   TankUnderBomb, StageEnding, RocketFiring, EnemyLeaving, FighterInRange,
   FuelRescue, CeilingFlight, LostGame, FinalStageEnding, BulletAtTwo,
   BombAndBullet, RocketsInARow, OverTarget,
   BombOverRocket, TargetLeaving, StageEndingArmed}

\* on the wide canvas
BombSpent ==            \* stage 2: a bomb has just destroyed a base on the ground
  << [rnd |-> QuietRnd, n |-> 1121], [rnd |-> Keys(KeyUp), n |-> 30],
     [rnd |-> QuietRnd, n |-> 270],
     [rnd |-> SpawningTarget("base", NoInput), n |-> 1],
     [rnd |-> QuietRnd, n |-> 7], [rnd |-> Keys(KeyBomb), n |-> 1],
     [rnd |-> QuietRnd, n |-> 31] >>

WideSceneScripts == {BombSpent}

ScriptsFor(canvas) ==
  IF canvas = NarrowCanvas THEN SceneScripts
  ELSE IF canvas = WideCanvas THEN WideSceneScripts
  ELSE {}

\* the noiseOffset drawn by the terrain of stage 1 in a script
ScriptTerrain(script) == IF script = CeilingFlight THEN "rolling" ELSE "level"

\* the draws of a freely played PLAYING frame
SceneRnds(stage, ids) ==
  LET draws ==
        {QuietRnd,
         [Spawning(getStage(stage).enemyTypes[1], 140) EXCEPT !.wave = 1],
         Spawning(getStage(stage).enemyTypes[1], -1),
         [SpawningTarget(getStage(stage).groundTargetTypes[1], NoInput)
            EXCEPT !.noiseOffset = "rolling"],
         [QuietRnd EXCEPT !.shooters = ids, !.particleLife = 45]}
  IN {[d EXCEPT !.input = keys] : d \in draws, keys \in Inputs}

SceneCur == [s |-> Cur, w |-> world]

SceneBecomes(sw) ==
  /\ game' = sw.s.game
  /\ player' = sw.s.player
  /\ storage' = sw.s.storage
  /\ trace' = sw.s.trace
  /\ frames' = sw.s.frames
  /\ world' = sw.w
  /\ UNCHANGED <<probe, nostr>>

SceneInit ==
  /\ \E c \in SceneCanvases : game = NewGame(c, NoItem)
  /\ storage = NoItem
  /\ player = NoPlayer
  /\ trace = <<>>
  /\ frames = NewFrames
  /\ op = "new"
  /\ budget = 0
  /\ restarts = 0
  /\ world = EmptyWorld
  /\ probe = NoProbe
  /\ agenda = <<>>
  /\ nostr = NoNostr

SceneStart ==
  /\ agenda = <<>>
  /\ game.state = START_SCREEN \/ restarts < MaxRestarts
  /\ \E noiseOffset \in NoiseOffsets :
        SceneBecomes(sceneStart(Cur, world, noiseOffset))
  /\ op' = "start"
  /\ restarts' = IF game.state = START_SCREEN THEN restarts ELSE restarts + 1
  /\ UNCHANGED <<budget, agenda>>

\* start() on the new game, one of the scripts of its canvas is to be played
ScenePlay ==
  /\ op = "new"
  /\ \E chosen \in ScriptsFor(game.canvas) :
        /\ SceneBecomes(sceneStart(Cur, world, ScriptTerrain(chosen)))
        /\ agenda' = chosen
  /\ op' = "play"
  /\ UNCHANGED <<budget, restarts>>

\* the next frame of the script
SceneScripted ==
  /\ agenda # <<>>
  /\ SceneBecomes(sceneUpdate(Cur, world, agenda[1].rnd))
  /\ agenda' = IF agenda[1].n > 1 THEN [agenda EXCEPT ![1].n = @ - 1]
                ELSE Tail(agenda)
  /\ op' = "update"
  /\ UNCHANGED <<budget, restarts>>

ScenePlaying ==
  /\ agenda = <<>>
  /\ game.running
  /\ game.state = PLAYING
  /\ budget < MaxSceneFrames
  /\ \E rnd \in SceneRnds(world.spawnStage, 1..(world.nextId - 1)) :
        SceneBecomes(sceneUpdate(Cur, world, rnd))
  /\ op' = "update"
  /\ budget' = budget + 1
  /\ UNCHANGED <<restarts, agenda>>

SceneOther ==
  /\ agenda = <<>>
  /\ game.running
  /\ game.state # PLAYING
  /\ \E noiseOffset \in NoiseOffsets :
        SceneBecomes(sceneUpdate(Cur, world,
                                 [QuietRnd EXCEPT !.noiseOffset = noiseOffset]))
  /\ op' = "update"
  /\ UNCHANGED <<budget, restarts, agenda>>

ScenePause ==
  /\ agenda = <<>>
  /\ SceneBecomes(scenePause(Cur, world))
  /\ op' = "pause"
  /\ UNCHANGED <<budget, restarts, agenda>>

SceneNext ==
  \/ SceneStart \/ ScenePlay \/ SceneScripted \/ ScenePlaying \/ SceneOther
  \/ ScenePause

SceneSpec == SceneInit /\ [][SceneNext]_vars

(***************************************************************************)
(* publishEvent alone: one call with a list of up to MaxRelays relay URLs, *)
(* the library and each relay succeeding or failing as they like.          *)
(***************************************************************************)
MaxRelays == 3
RelayUrls == {"wss://relay.damus.io", "wss://nos.lol"}

NostrIdle ==
  /\ GameNotStarted
  /\ world = NoWorld
  /\ probe = NoProbe

PublishInit ==
  /\ NostrIdle
  /\ nostr = NoNostr

PublishCall ==
  /\ nostr.publish.pc = "idle"
  /\ \E relays \in SeqsUpTo(RelayUrls, MaxRelays) :
        nostr' = publishEvent(nostr, relays)
  /\ UNCHANGED <<gameVars, world, probe>>

PublishLoaded ==
  /\ nostr.publish.pc = "load"
  /\ \E imported \in BOOLEAN :
        nostr' = [nostr EXCEPT !.tools = imported,
                               !.publish = publishLoaded(@, imported)]
  /\ UNCHANGED <<gameVars, world, probe>>

PublishConnected ==
  /\ nostr.publish.pc = "connect"
  /\ \E connected \in BOOLEAN :
        nostr' = [nostr EXCEPT !.publish = publishConnected(@, connected)]
  /\ UNCHANGED <<gameVars, world, probe>>

PublishPublished ==
  /\ nostr.publish.pc = "publish"
  /\ \E published \in BOOLEAN :
        nostr' = [nostr EXCEPT !.publish = publishPublished(@, published)]
  /\ UNCHANGED <<gameVars, world, probe>>

PublishNext ==
  PublishCall \/ PublishLoaded \/ PublishConnected \/ PublishPublished

PublishSpec == PublishInit /\ [][PublishNext]_vars

(***************************************************************************)
(* ensurePlayer alone: up to MaxCalls calls (the one of the page load and  *)
(* those of the page's scripts), interleaved at their awaits, on a storage *)
(* that is empty or holds the player of an earlier session.                *)
(***************************************************************************)
MaxCalls == 3

StoredPlayers == {NoStored, JSONstringify(EphemeralPlayer(0))}

PlayerInit ==
  /\ NostrIdle
  /\ \E item \in StoredPlayers : nostr = [NoNostr EXCEPT !.item = item]

EnsurePlayer ==
  /\ Len(nostr.calls) < MaxCalls
  /\ nostr' = ensurePlayer(nostr)
  /\ UNCHANGED <<gameVars, world, probe>>

Imported ==
  /\ \E c \in 1..Len(nostr.calls), imported \in BOOLEAN :
        /\ nostr.calls[c].pc = "import"
        /\ nostr' = loadNostrTools(nostr, c, imported)
  /\ UNCHANGED <<gameVars, world, probe>>

EnsurePlayerResumed ==
  /\ \E c \in 1..Len(nostr.calls) :
        /\ nostr.calls[c].pc = "tools"
        /\ nostr' = ensurePlayerResumed(nostr, c)
  /\ UNCHANGED <<gameVars, world, probe>>

PlayerNext == EnsurePlayer \/ Imported \/ EnsurePlayerResumed

PlayerSpec == PlayerInit /\ [][PlayerNext]_vars

(***************************************************************************)
(* Properties                                                              *)
(***************************************************************************)
Started == game.state # START_SCREEN
TraceCalls(name) == {i \in 1..Len(trace) : trace[i].call = name}
Terminal == {GAME_OVER, VICTORY}

\* C1: a combat hit on a player with exactly 1 life who is not invincible
\* leaves the game in GAME_OVER at the end of that frame, with the best
\* score persisted if the score exceeded it.
C1_TerminalLifeLoss ==
  \A i \in TraceCalls("playerHit") :
     (trace[i].wasHit /\ trace[i].before.lives = 1)
       => /\ game.state = GAME_OVER
          /\ game.score <= game.bestScore
          /\ storedBest(storage) = game.bestScore

\* C2: every setState call follows an edge of the state machine, or is the
\* one made by start()/restart() into PLAYING.
StateEdges ==
  {<<START_SCREEN, PLAYING>>, <<PLAYING, PAUSED>>, <<PAUSED, PLAYING>>,
   <<PLAYING, STAGE_TRANSITION>>, <<STAGE_TRANSITION, PLAYING>>,
   <<STAGE_TRANSITION, VICTORY>>, <<PLAYING, GAME_OVER>>}

C2_StateEdges ==
  \A i \in TraceCalls("setState") :
     \/ <<trace[i].old, trace[i].new>> \in StateEdges
     \/ op = "start" /\ trace[i].new = PLAYING

\* C3: in GAME_OVER and VICTORY no frame update and no pause() changes the
\* state, score, lives, fuel, stage index or distance.
C3_TerminalFrozen ==
  [][(game.state \in Terminal /\ op' \in {"update", "pause"})
       => /\ game'.state = game.state
          /\ game'.score = game.score
          /\ game'.currentStage = game.currentStage
          /\ game'.distance = game.distance
          /\ player'.lives = player.lives
          /\ player'.fuel = player.fuel]_vars

C3_Witness == game.state = GAME_OVER /\ op = "update" /\ trace = <<>>

\* C4: the player's lives are never negative.
C4_LivesNonNegative == Started => player.lives >= 0

\* C5: a combat hit on an invincible player returns false, changes no
\* player field (lives, invincibility timer), and is followed neither by the
\* player's explosion nor by a state change to GAME_OVER.
C5_InvincibleHitIgnored ==
  \A i \in TraceCalls("playerHit") :
     trace[i].before.isInvincible
       => /\ ~trace[i].wasHit
          /\ trace[i].after = trace[i].before
          /\ i < Len(trace)
               => /\ trace[i + 1] # [call |-> "explosion", count |-> 15]
                  /\ ~(trace[i + 1].call = "setState"
                         /\ trace[i + 1].new = GAME_OVER)

C5_Witness ==
  \E i \in TraceCalls("playerHit") :
     /\ trace[i].before.isInvincible
     /\ trace[i].before.invincibleTimer < InvincibleDuration
     /\ player.lives = trace[i].before.lives

C7_FuelRange ==
  Started => DLe(DZero, player.fuel) /\ DLe(player.fuel, DInt(100))

C7_Witness ==
  /\ TraceCalls("addFuel") # {}
  /\ player.fuel = DInt(100)

\* max(0, f - 0.05) in double arithmetic
Drained(f) == DMax(DZero, DSub(f, <<51, 1677721, 5033165>>))

\* C8 as stated: a PLAYING frame in which no fuel-granting target is
\* destroyed ends with fuel = max(0, fuel at its start - 0.05).
C8_Original ==
  [][(op' = "update" /\ game.state = PLAYING
        /\ \A i \in 1..Len(trace') : trace'[i].call # "addFuel")
       => player'.fuel = Drained(player.fuel)]_vars

\* C8: a PLAYING frame in which no fuel-granting target is destroyed ends
\* with fuel = max(0, fuel at its start - 0.05), unless a crash resolution
\* that leaves a life ran in it: then it ends with max(that, 30).
C8_FuelDecay ==
  [][(op' = "update" /\ game.state = PLAYING
        /\ \A i \in 1..Len(trace') : trace'[i].call # "addFuel")
       => player'.fuel =
            IF \E i \in 1..Len(trace') :
                  trace'[i].call = "playerCrash" /\ trace'[i].after.lives > 0
              THEN DMax(Drained(player.fuel), DInt(30))
              ELSE Drained(player.fuel)]_vars

C8_Witness ==
  /\ op = "update"
  /\ TraceCalls("addFuel") = {}
  /\ \E i \in TraceCalls("playerCrash") :
        /\ trace[i].after.lives > 0
        /\ trace[i].before.fuel = DZero
        /\ trace[i].after.fuel = DInt(30)

\* C9 as stated: in undisturbed flight fuel is exactly 0 after 2000 PLAYING
\* frames and the 2001st frame runs the crash resolution, taking one life.
C9_Original ==
  /\ (Started /\ frames.play <= 2000) => player.lives = 3
  /\ (Started /\ frames.play = 2000) => player.fuel = DZero
  /\ (Started /\ frames.play = 2001) =>
        player.lives = 2 /\ TraceCalls("playerCrash") # {}

\* C9: in undisturbed flight fuel is still positive after 2000 PLAYING
\* frames and no life is lost; the 2001st frame drains it to exactly 0 and
\* runs the crash resolution in the same call, taking exactly one life.
C9_FuelExhaustion ==
  /\ (Started /\ frames.play <= 2000) =>
        player.lives = 3 /\ DLt(DZero, player.fuel)
  /\ (Started /\ frames.play = 2000) => DLt(player.fuel, <<51, 1677721, 5033165>>)
  /\ (Started /\ frames.play = 2001) =>
        /\ player.lives = 2
        /\ Cardinality(TraceCalls("playerCrash")) = 1
        /\ \A i \in TraceCalls("playerCrash") : trace[i].before.fuel = DZero

C9_Witness == Started /\ frames.play = 2001 /\ player.lives = 2

\* C10 as stated: the first stage (length 1800, scroll speed 1.8) enters
\* STAGE_TRANSITION in its 1000th PLAYING frame and not before.
C10_Original ==
  (Started /\ game.currentStage = 0) =>
     /\ frames.stage < 1000 => game.state = PLAYING
     /\ frames.stage = 1000 => game.state = STAGE_TRANSITION

\* C10: distance is 0 when a stage starts and every PLAYING frame adds the
\* scroll speed to it (a double addition); the first stage (length 1800,
\* scroll speed 1.8) enters STAGE_TRANSITION in its 1001st PLAYING frame and
\* not before, the 1000 additions before it giving less than 1800.
C10_StageCompletion ==
  /\ []((Started /\ game.currentStage = 0) =>
          /\ frames.stage <= 1000 => game.state = PLAYING
          /\ frames.stage = 1000 => DLt(game.distance, DInt(1800))
          /\ frames.stage = 1001 => game.state = STAGE_TRANSITION)
  /\ []((Started /\ frames.stage = 0) => game.distance = DZero)
  /\ [][(op' = "update" /\ game.state = PLAYING)
          => game'.distance = DAdd(game.distance, game.scrollSpeed)]_vars

C10_Witness ==
  /\ game.currentStage = 0
  /\ game.state = STAGE_TRANSITION
  /\ frames.stage = 1001
  /\ game.stateTimer = 120

\* the right edge of a is the left edge of b, or the bottom edge of a the
\* top edge of b
Touching(a, b) ==
  \/ DAdd(a.x, DInt(a.width)) = b.x
  \/ DAdd(a.y, DInt(a.height)) = b.y

\* C18: a.collidesWith(b) = b.collidesWith(a) for all pairs of entities,
\* both are false when a or b is inactive, and boxes that only touch along
\* an edge do not collide.
C18_CollisionSymmetry ==
  probe.done =>
    /\ probe.ab = probe.ba
    /\ (~probe.a.active \/ ~probe.b.active) => ~probe.ab /\ ~probe.ba
    /\ (Touching(probe.a, probe.b) \/ Touching(probe.b, probe.a))
         => ~probe.ab /\ ~probe.ba

C18_Witness ==
  /\ probe.done
  /\ probe.a.active /\ probe.b.active
  /\ DAdd(probe.a.x, DInt(probe.a.width)) = probe.b.x
  /\ probe.a.width > 0 /\ probe.b.width > 0
  /\ probe.a.y = probe.b.y /\ probe.a.height > 0 /\ probe.b.height > 0
  /\ ~probe.ab

HasTerrain == "terrain" \in DOMAIN world
Segments == world.terrain.segments

\* the exact difference a - b of two doubles, not rounded
Diff(a, b) == Norm(a[1] - b[1], a[2] - b[2], a[3] - b[3])

\* |start of the next segment - (start of this one + its width)| <= tol
Adjacent(i, tol) ==
  LET gap == Diff(Segments[i + 1].x,
                  Norm(Segments[i].x[1] + 1024 * SegmentWidth,
                       Segments[i].x[2], Segments[i].x[3]))
  IN DLe(gap, tol) /\ DLe(DNeg(tol), gap)

LeftToRight ==
  \A i \in 1..(Len(Segments) - 1) : DLt(Segments[i].x, Segments[i + 1].x)

CoversEnds ==
  /\ Segments # <<>>
  /\ DLe(Segments[1].x, DZero)
  /\ DLe(DInt(world.terrain.canvasWidth),
         DAdd(Segments[Len(Segments)].x, DInt(SegmentWidth)))

\* C20 as stated: the segments are ordered left to right, each starts exactly
\* where the previous one ends, and together they cover [0, canvasWidth].
C20_Original ==
  HasTerrain =>
    /\ LeftToRight
    /\ \A i \in 1..(Len(Segments) - 1) :
          Segments[i + 1].x = DAdd(Segments[i].x, DInt(SegmentWidth))
    /\ CoversEnds

\* 2^-20, a millionth of a pixel
RoundingTolerance == <<0, 2^13, 0>>

\* C20: after construction and after any sequence of updates at the stage's
\* scroll speed the segments are ordered left to right, the first starts at
\* or before 0, the last ends at or after canvasWidth, and each segment
\* starts where the previous one ends to within the rounding of the double
\* subtractions (far less than 2^-20), exactly so after construction and at
\* the scroll speeds 2 and 2.5, which are multiples of 0.5.
C20_SegmentContinuity ==
  HasTerrain =>
    /\ LeftToRight
    /\ CoversEnds
    /\ \A i \in 1..(Len(Segments) - 1) : Adjacent(i, RoundingTolerance)
    /\ (world.updates = 0 \/ world.terrain.stage \in {1, 3}) =>
          \A i \in 1..(Len(Segments) - 1) : Adjacent(i, DZero)

C20_Witness ==
  /\ HasTerrain
  /\ world.updates > 8
  /\ world.terrain.stage = 0
  /\ DLt(Segments[1].x, DInt(-10))
  /\ \E i \in 1..(Len(Segments) - 1) : ~Adjacent(i, DZero)
  /\ DLe(DInt(world.terrain.canvasWidth + 50), Segments[Len(Segments)].x)


\* the points of the destructions among the events of a frame: an enemy
\* whose health a player bullet brought to 0 or below, a ground target that
\* a bomb or a player bullet hit
RECURSIVE PointsOf(_)
PointsOf(events) ==
  IF events = <<>> THEN 0
  ELSE LET e == Head(events)
           points ==
             CASE e.call = "bulletEnemy" /\ e.health <= 0 ->
                    ENEMY_TYPES[e.type].points
               [] e.call \in {"bombTarget", "bulletTarget"} ->
                    GROUND_TARGET_TYPES[e.type].points
               [] OTHER -> 0
       IN points + PointsOf(Tail(events))

NoRepetition(q) == \A i, j \in 1..Len(q) : q[i] = q[j] => i = j

\* C13: within a run the score never decreases and changes only in a frame
\* update, by exactly the points of the entities destroyed in that frame (an
\* enemy whose health a player bullet brought to 0 or below, a ground target
\* hit by a bomb or a player bullet), so that non-lethal hits, body
\* collisions, bomb detonations on the terrain and off-screen exits add
\* nothing; pause() leaves it alone; no entity is scored twice.
C13_ScoreByDestruction ==
  /\ []("awarded" \in DOMAIN world => NoRepetition(world.awarded))
  /\ [][/\ op' = "update" =>
             /\ game'.score = game.score + PointsOf(world'.events)
             /\ game'.score >= game.score
        /\ op' = "pause" => game'.score = game.score]_vars

\* a player bullet has just destroyed a rocket, for its 50 points
C13_Witness ==
  /\ op = "update"
  /\ \E i \in 1..Len(world.events) :
        /\ world.events[i].call = "bulletEnemy"
        /\ world.events[i].health <= 0
        /\ world.awarded = <<world.events[i].id>>
  /\ game.score = 50

\* the box of bomb b overlaps the top or the bottom wall rectangle of a
\* terrain segment
OverlapsWall(b) ==
  \E i \in 1..Len(world.terrain.segments) :
     LET seg == world.terrain.segments[i]
     IN /\ DLt(b.x, DAdd(seg.x, DInt(SegmentWidth)))
        /\ DLt(seg.x, DAdd(b.x, DInt(b.width)))
        /\ \/ DLt(b.y, DInt(seg.topHeight))
           \/ DLt(DInt(world.terrain.canvasHeight - seg.bottomHeight),
                  DAdd(b.y, DInt(b.height)))

\* the bombs that were moved in the last frame, as positions in the events
MovedBombs ==
  IF "events" \in DOMAIN world
    THEN {i \in 1..Len(world.events) : world.events[i].call = "bombMoved"}
    ELSE {}

\* the bomb moved at event i was detonated: 6 particles pushed for it, the
\* bomb gone from the collection, no ground target destroyed by it
Detonated(i) ==
  /\ i < Len(world.events)
  /\ world.events[i + 1] = [call |-> "explosion", count |-> 6]
  /\ \A j \in 1..Len(world.bombs) : world.bombs[j].id # world.events[i].bomb.id
  /\ \A k \in 1..Len(world.events) :
        world.events[k].call = "bombTarget" =>
          world.events[k].by # world.events[i].bomb.id

NotDetonated(i) ==
  i < Len(world.events) => world.events[i + 1].call # "explosion"

\* C19 as stated: whenever a bomb's box, after its movement in a frame,
\* overlaps a wall rectangle of a terrain segment, the bomb is detonated in
\* that frame (6 particles, removed, no score by it).
C19_Original ==
  \A i \in MovedBombs : OverlapsWall(world.events[i].bomb) => Detonated(i)

\* C19: whenever a bomb that is still active after its movement in a frame
\* (not spent on a ground target in the frame before, not outside the screen
\* bounds) overlaps a wall rectangle of a terrain segment, it is deactivated
\* and removed in that frame, exactly 6 particles are added for it and it
\* destroys no ground target and scores nothing in that frame; a moved bomb
\* that is inactive or overlaps no wall adds no particles.
C19_BombDetonation ==
  \A i \in MovedBombs :
     IF world.events[i].bomb.active /\ OverlapsWall(world.events[i].bomb)
       THEN Detonated(i) /\ world.events[i].wall # "none"
       ELSE NotDetonated(i) /\ world.events[i].wall = "none"

\* a bomb has just struck the ground: its 6 particles are all there is
C19_Witness ==
  /\ op = "update"
  /\ \E i \in MovedBombs :
        /\ world.events[i].bomb.active
        /\ OverlapsWall(world.events[i].bomb)
        /\ world.events[i].wall = "bottom"
  /\ Len(world.particles) = 6
  /\ world.bombs = <<>>
  /\ game.score = 0

\* a bomb spent on a base in the frame before is moved into the ground
C19_SpentBomb ==
  /\ game.canvas = WideCanvas
  /\ \E i \in MovedBombs :
        ~world.events[i].bomb.active /\ OverlapsWall(world.events[i].bomb)

HasCollections == "events" \in DOMAIN world

\* the steps of updatePlaying to which the calls of a frame belong: 1 player
\* shoot/bomb, 2 collision resolution, 3 terrain-crash, fuel and stage checks
TraceRank(e) ==
  CASE e.call \in {"bullet", "bomb"} -> 1
    [] e.call \in {"addScore", "addFuel", "playerHit"} -> 2
    [] e.call = "playerCrash" -> 3
    [] e.call = "setState" /\ e.new = STAGE_TRANSITION -> 3
    [] OTHER -> 0

\* the same for what the frame did to the collections: shoot, bomb,
\* spawning, kinematics (enemies and targets, then bombs), collisions in the
\* order of their categories
EventRank(e) ==
  CASE e.call = "fired" -> 1
    [] e.call = "dropped" -> 2
    [] e.call = "spawn" -> 3
    [] e.call = "offScreen" -> 4
    [] e.call = "bombMoved" -> 5
    [] e.call = "bulletEnemy" -> 6
    [] e.call = "bombTarget" -> 7
    [] e.call = "bulletTarget" -> 8
    [] e.call = "bulletPlayer" -> 9
    [] e.call = "bodyCollision" -> 10
    [] OTHER -> 0

InOrder(q, rank(_)) ==
  \A i, j \in 1..Len(q) :
     i < j /\ rank(q[i]) # 0 /\ rank(q[j]) # 0 => rank(q[i]) <= rank(q[j])

Crashed == \E k \in 1..Len(trace) : trace[k].call = "playerCrash"

\* what was fired, dropped or spawned in the last frame has been moved once
NewEntitiesMoved ==
  \A i \in 1..Len(world.events) :
     LET e == world.events[i]
     IN /\ e.call = "fired" =>
             \A k \in 1..Len(world.bullets) :
                world.bullets[k].id = e.id =>
                  /\ world.bullets[k].x = DInt(player.x + PlayerWidth + 10)
                  /\ world.bullets[k].y = DInt(player.y + 6)
        /\ e.call = "dropped" =>
             \A k \in 1..Len(world.bombs) :
                world.bombs[k].id = e.id =>
                  /\ world.bombs[k].x = DInt(player.x + 16 + 3)
                  /\ world.bombs[k].y =
                       DAdd(DInt(player.y + PlayerHeight), DAdd(DInt(4), Gravity))
        /\ e.call = "spawn" =>
             /\ \A k \in 1..Len(world.enemies) :
                   world.enemies[k].id = e.id =>
                     DLt(world.enemies[k].x, DInt(game.canvas.width + 50))
             /\ \A k \in 1..Len(world.groundTargets) :
                   world.groundTargets[k].id = e.id =>
                     DLt(world.groundTargets[k].x, DInt(game.canvas.width + 50))

\* the collisions were resolved on the positions at which the frame left the
\* entities: no active player bullet is left in an active enemy or ground
\* target, no active bomb in an active ground target
CollisionsResolved ==
  /\ \A i \in 1..Len(world.bullets) :
        world.bullets[i].isPlayerBullet /\ world.bullets[i].active =>
          /\ \A j \in 1..Len(world.enemies) :
                ~collidesWith(world.bullets[i], world.enemies[j])
          /\ \A j \in 1..Len(world.groundTargets) :
                ~collidesWith(world.bullets[i], world.groundTargets[j])
  /\ \A i \in 1..Len(world.bombs) :
        \A j \in 1..Len(world.groundTargets) :
           ~collidesWith(world.bombs[i], world.groundTargets[j])

\* the crash of a frame found the player as the frame's collisions left it
ChecksSeeCollisions ==
  \A k \in 1..Len(trace) :
     trace[k].call = "playerCrash" =>
       \A i \in 1..(k - 1) :
          /\ trace[i].call = "addFuel" =>
                DLe(DInt(trace[i].amount), trace[k].before.fuel)
          /\ trace[i].call = "playerHit" =>
                trace[k].before.lives <= trace[i].after.lives

\* the player of a PLAYING frame moves up or down only as far as the safe
\* zone of the terrain allows that the same frame has scrolled
BoundedByThisFramesZone ==
  op' = "update" /\ game.state = PLAYING =>
    LET zone == playerBounds(terrainGetSafeZone(world'.terrain))
        crashes == {k \in 1..Len(trace') : trace'[k].call = "playerCrash"}
        moved == IF crashes = {} THEN player'   \* a crash resets the position
                 ELSE trace'[CHOOSE k \in crashes : TRUE].before
    IN /\ game'.distance = DAdd(game.distance, game.scrollSpeed)
       /\ world'.terrain =
            terrainUpdate(world.terrain, game.scrollSpeed, game'.distance)
       /\ moved.y < player.y => player.y > zone.top + 5
       /\ moved.y > player.y => player.y + PlayerHeight < zone.bottom - 5

\* C17: a PLAYING frame updates distance and terrain, then the player within
\* this frame's safe zone, then lets the player shoot and bomb, spawns, moves
\* enemies, ground targets, bullets and bombs, resolves the collisions and
\* last checks terrain crash, fuel and stage completion: what is fired or
\* spawned in a frame is moved and collision-tested in it, and the checks
\* see the results of the frame's collisions.
C17_FrameOrder ==
  /\ [](HasCollections =>
          /\ InOrder(trace, TraceRank)
          /\ InOrder(world.events, EventRank)
          /\ (op = "update" /\ ~Crashed) => NewEntitiesMoved
          /\ CollisionsResolved
          /\ ChecksSeeCollisions)
  /\ [][HasCollections => BoundedByThisFramesZone]_vars

\* a bullet fired in the last frame has destroyed a rocket in that frame
C17_Witness ==
  /\ op = "update"
  /\ \E i, j \in 1..Len(world.events) :
        /\ world.events[i].call = "fired"
        /\ world.events[j].call = "bulletEnemy"
        /\ world.events[j].by = world.events[i].id
  /\ game.score = 50

\* the particles one frame older, the dead ones removed
Aged(particles) ==
  LET older == [i \in 1..Len(particles) |-> particles[i] - 1]
      alive(life) == life > 0
  IN SelectSeq(older, alive)

\* the terrain and the entities of w
Entities(w) == <<w.terrain, w.enemies, w.groundTargets, w.bullets, w.bombs>>

\* C15: PAUSED is entered only from PLAYING, by pause(), and left only to
\* PLAYING; pause() does nothing in START_SCREEN, STAGE_TRANSITION, GAME_OVER
\* and VICTORY; an update while PAUSED changes nothing but the particles
\* (one frame older), and pause() itself changes nothing but the state: so
\* the game resumes from the frame state at which it was paused.
C15_PauseFreezes ==
  [][HasCollections =>
       /\ game'.state = PAUSED /\ game.state # PAUSED =>
             game.state = PLAYING /\ op' = "pause"
       /\ game.state = PAUSED /\ game'.state # PAUSED => game'.state = PLAYING
       /\ op' = "pause" /\ game.state \notin {PLAYING, PAUSED} =>
             UNCHANGED <<game, player, storage, world>>
       /\ op' = "pause" /\ game.state \in {PLAYING, PAUSED} =>
             /\ game' = [game EXCEPT
                           !.state = IF game.state = PLAYING THEN PAUSED
                                     ELSE PLAYING,
                           !.stateTimer = 0]
             /\ UNCHANGED <<player, storage, world>>
       /\ op' = "update" /\ game.state = PAUSED =>
             /\ UNCHANGED <<game, player, storage>>
             /\ Entities(world') = Entities(world)
             /\ world'.particles = Aged(world.particles)]_vars

\* paused with a bullet in flight, an enemy and an explosion on the screen,
\* and updated since
C15_Witness ==
  /\ game.state = PAUSED
  /\ op = "update"
  /\ HasCollections
  /\ world.enemies # <<>>
  /\ world.bullets # <<>>
  /\ world.particles # <<>>

\* the terrain that generateInitialTerrain makes for stage 1: segments of
\* width 4 from x = 0 on, at the stage's base heights displaced by the noise
FreshTerrain(t) ==
  /\ t.stage = 0
  /\ Len(t.segments) = (game.canvas.width + 3) \div 4 + 10
  /\ \A i \in 1..Len(t.segments) :
        /\ t.segments[i].x = DInt(4 * (i - 1))
        /\ \E n \in {-1, 0, 1} :
              /\ t.segments[i].topHeight = 40 + n * 25
              /\ t.segments[i].bottomHeight = 80 + n * 20

\* C16: after start() or restart(), in whatever state it is called, the game
\* is PLAYING with score 0, stage index 0, distance 0, the scroll speed of
\* stage 1 (1.8), a fresh player (3 lives, fuel 100, not invincible, cooldowns
\* 0, start position), empty enemy, ground-target, bullet, bomb and particle
\* collections and a newly generated stage-1 terrain; bestScore is kept.
C16_StartResets ==
  [][HasCollections /\ op' = "start" =>
       /\ game' = [state |-> PLAYING, stateTimer |-> 0, score |-> 0,
                   bestScore |-> game.bestScore, currentStage |-> 0,
                   distance |-> DZero,
                   scrollSpeed |-> <<1843, 1677721, 5033168>>,
                   running |-> TRUE, callbacks |-> 1, canvas |-> game.canvas]
       /\ player' = [x |-> 60, y |-> game.canvas.height \div 2 - 8, lives |-> 3,
                     shootCooldown |-> 0, bombCooldown |-> 0,
                     isInvincible |-> FALSE, invincibleTimer |-> 0,
                     fuel |-> DInt(100)]
       /\ storage' = storage
       /\ world'.enemies = <<>> /\ world'.groundTargets = <<>>
       /\ world'.bullets = <<>> /\ world'.bombs = <<>>
       /\ world'.particles = <<>>
       /\ world'.awarded = <<>>
       /\ FreshTerrain(world'.terrain)]_vars

\* restarted after a lost game that had scored 50 points
C16_Witness ==
  /\ op = "start"
  /\ restarts = 1
  /\ game.bestScore = 50
  /\ game.score = 0
  /\ HasCollections
  /\ world.nextId > 1
  /\ world.particles = <<>>

\* the terrain that generateInitialTerrain makes for a stage: segments of
\* width 4 from x = 0 on, at the stage's base heights displaced by the noise
StageTerrain(t, stage) ==
  /\ t.stage = stage
  /\ Len(t.segments) = (game.canvas.width + 3) \div 4 + 10
  /\ \A i \in 1..Len(t.segments) :
        /\ t.segments[i].x = DInt(4 * (i - 1))
        /\ \E n \in {-1, 0, 1} :
              /\ t.segments[i].topHeight =
                    STAGES[stage + 1].baseTopHeight
                      + n * STAGES[stage + 1].terrainVariation
              /\ t.segments[i].bottomHeight =
                    STAGES[stage + 1].baseBottomHeight
                      + n * ((STAGES[stage + 1].terrainVariation * 4) \div 5)

\* C11: STAGE_TRANSITION is entered with the timer at 120; each of the next
\* 119 updates lowers the timer by 1 and changes nothing else but the
\* particles; the 120th update raises the stage index by exactly 1 and
\* enters PLAYING with distance 0, the new stage's scroll speed, a new
\* terrain and empty enemy, target, bullet and bomb collections if a stage
\* remains, VICTORY otherwise; VICTORY is entered in no other way.
C11_StageTransition ==
  [][HasCollections =>
       /\ game'.state = STAGE_TRANSITION =>
             /\ game'.stateTimer \in 1..120
             /\ game.state # STAGE_TRANSITION => game'.stateTimer = 120
       /\ game.state = STAGE_TRANSITION /\ op' = "update"
            /\ game.stateTimer > 1 =>
             /\ game' = [game EXCEPT !.stateTimer = @ - 1]
             /\ UNCHANGED <<player, storage>>
             /\ Entities(world') = Entities(world)
             /\ world'.particles = Aged(world.particles)
       /\ game.state = STAGE_TRANSITION /\ op' = "update"
            /\ game.stateTimer <= 1 =>
             /\ game'.currentStage = game.currentStage + 1
             /\ game'.score = game.score
             /\ UNCHANGED player
             /\ world'.particles = Aged(world.particles)
             /\ IF game.currentStage + 1 < 5
                  THEN /\ game'.state = PLAYING
                       /\ game'.distance = DZero
                       /\ game'.scrollSpeed =
                             STAGES[game.currentStage + 2].scrollSpeed
                       /\ StageTerrain(world'.terrain, game.currentStage + 1)
                       /\ world'.enemies = <<>> /\ world'.groundTargets = <<>>
                       /\ world'.bullets = <<>> /\ world'.bombs = <<>>
                  ELSE /\ game'.state = VICTORY
                       /\ Entities(world') = Entities(world)
       /\ game'.state = VICTORY /\ game.state # VICTORY =>
             /\ game.state = STAGE_TRANSITION
             /\ game.stateTimer = 1
             /\ game.currentStage = 4
             /\ op' = "update"]_vars

\* the transition that followed the fifth stage has just expired
C11_Witness ==
  /\ game.state = VICTORY
  /\ game.currentStage = 5
  /\ op = "update"
  /\ HasCollections
  /\ \E i \in 1..Len(trace) :
        /\ trace[i].call = "setState"
        /\ trace[i].old = STAGE_TRANSITION

\* C12: the stage index starts at 0 and stays within 0..5; start() and
\* restart() set it to 0, and otherwise it changes only by +1, in the update
\* that ends a stage transition; the lookups of the game, getStage(index) in
\* PLAYING and the preview getStage(index + 1) in STAGE_TRANSITION, yield a
\* record of STAGES: the indexed one, or the last one for the preview on
\* the last stage.
C12_StageIndex ==
  /\ game.currentStage = 0
  /\ [][/\ game'.currentStage \in 0..5
        /\ game'.currentStage # game.currentStage =>
              \/ op' \in {"start", "play"} /\ game'.currentStage = 0
              \/ /\ op' = "update"
                 /\ game.state = STAGE_TRANSITION
                 /\ game.stateTimer = 1
                 /\ game'.currentStage = game.currentStage + 1
        /\ game'.state = PLAYING =>
              /\ game'.currentStage < 5
              /\ getStage(game'.currentStage) = STAGES[game'.currentStage + 1]
        /\ game'.state = STAGE_TRANSITION =>
              /\ game'.currentStage < 5
              /\ getStage(game'.currentStage + 1) =
                    STAGES[IF game'.currentStage < 4
                             THEN game'.currentStage + 2 ELSE 5]]_vars

\* the transition screen after the last stage, previewing stage index 5
C12_Witness ==
  /\ game.state = STAGE_TRANSITION
  /\ game.currentStage = 4
  /\ game.stateTimer < 120
  /\ op = "update"
  /\ getStage(game.currentStage + 1).name = "FINAL FORTRESS"

\* C14: in GAME_OVER and VICTORY bestScore >= score, and the stored item,
\* read as the constructor reads it (no item as 0), is bestScore; bestScore
\* never decreases; saveBestScore writes only when called on entering
\* GAME_OVER or VICTORY, and bestScore and the stored item change only by
\* such a write, made with a score above bestScore, after which both are
\* that score.
C14_BestScore ==
  [][/\ game'.bestScore >= game.bestScore
     /\ game'.state \in Terminal =>
           /\ game'.bestScore >= game'.score
           /\ storedBest(storage') = game'.bestScore
     /\ \A i \in 1..Len(trace') :
           trace'[i].call = "save" =>
             /\ i > 1
             /\ trace'[i - 1].call = "setState"
             /\ trace'[i - 1].new \in Terminal
             /\ trace'[i].value > game.bestScore
             /\ game'.bestScore = trace'[i].value
             /\ storage' = toString(trace'[i].value)
     /\ game'.bestScore # game.bestScore \/ storage' # storage =>
           \E i \in 1..Len(trace') : trace'[i].call = "save"]_vars

\* a game lost with a score above the best score read at construction, which
\* was not 0
C14_Witness ==
  /\ game.state = GAME_OVER
  /\ op = "update"
  /\ \E i \in 1..Len(trace) : trace[i].call = "save"
  /\ game.bestScore > 100
  /\ storage = toString(game.bestScore)

\* the heights of segment i are those createSegment computes for the world
\* x that lies off to the right of the segment's screen x plus the distance
\* travelled
HeightsAt(i, off) ==
  LET made == createSegment(world.terrain, Segments[i].x,
                            Norm(Segments[i].x[1] + world.distance[1] + off[1],
                                 Segments[i].x[2] + world.distance[2] + off[2],
                                 Segments[i].x[3] + world.distance[3] + off[3]))
  IN /\ Segments[i].topHeight = made.topHeight
     /\ Segments[i].bottomHeight = made.bottomHeight

\* world positions on the boundary of two segments and inside a segment
BoundaryPositions == {DInt(64), DInt(128)}
InnerPositions == {DInt(62), DInt(66), DInt(130)}

\* getBoundsAt for a world position, at the scroll offset of w
BoundsAtWorld(w, pos) == getBoundsAt(w.terrain, DSub(pos, w.distance))

\* a segment of w covers the world position, at least margin from its ends
Covered(w, pos, margin) ==
  \E i \in 1..Len(w.terrain.segments) :
     LET left == Diff(Diff(pos, w.distance), w.terrain.segments[i].x)
     IN /\ DLe(margin, left)
        /\ DLt(left, Diff(DInt(SegmentWidth), margin))

\* C21 as stated: the heights of every live segment are the height function
\* at its screen x plus the distance travelled, and getBoundsAt for a world
\* position yields the same values before and after an update while a
\* segment covers the position.
C21_Original ==
  /\ [](HasTerrain => \A i \in 1..Len(Segments) : HeightsAt(i, DZero))
  /\ [][HasTerrain =>
          \A pos \in BoundaryPositions \cup InnerPositions :
             Covered(world, pos, DZero) /\ Covered(world', pos, DZero)
               => BoundsAtWorld(world', pos) = BoundsAtWorld(world, pos)]_vars

\* C21: the heights of every live segment are the height function at a
\* world x that differs from its screen x plus the distance travelled by
\* the rounding of the double additions at most (not at all after
\* construction and at the scroll speeds 2 and 2.5); getBoundsAt for a
\* world position yields the same values before and after an update while
\* a segment covers the position further than that rounding from its ends.
C21_TerrainDeterminism ==
  /\ [](HasTerrain =>
          /\ \A i \in 1..Len(Segments) :
                \E off \in {DNeg(RoundingTolerance), DZero, RoundingTolerance} :
                   HeightsAt(i, off)
          /\ (world.updates = 0 \/ world.terrain.stage \in {1, 3}) =>
                \A i \in 1..Len(Segments) : HeightsAt(i, DZero))
  /\ [][HasTerrain =>
          /\ \A pos \in BoundaryPositions \cup InnerPositions :
                /\ Covered(world, pos, RoundingTolerance)
                /\ Covered(world', pos, RoundingTolerance)
                => BoundsAtWorld(world', pos) = BoundsAtWorld(world, pos)
          /\ world.terrain.stage \in {1, 3} =>
                \A pos \in BoundaryPositions \cup InnerPositions :
                   Covered(world, pos, DZero) /\ Covered(world', pos, DZero)
                     => BoundsAtWorld(world', pos) = BoundsAtWorld(world, pos)]_vars

\* rolling terrain scrolled at 1.8: a segment made by update is on the
\* screen, and two neighbouring segments differ in height
C21_Witness ==
  /\ HasTerrain
  /\ world.updates > 8
  /\ world.terrain.stage = 0
  /\ world.terrain.noiseOffset = "rolling"
  /\ Len(Segments) > numSegments(world.terrain.canvasWidth)
  /\ \E i \in 1..(Len(Segments) - 1) :
        Segments[i].topHeight # Segments[i + 1].topHeight

\* the enemies that the frame's spawn events name
SpawnedEnemies(events) ==
  {i \in 1..Len(events) : events[i].call = "spawn" /\ events[i].kind = "enemy"}

\* C22: an enemy that the spawn manager creates in a frame is created at
\* x = canvasWidth + 50 with safeZone.top + 10 <= y and
\* y + height <= safeZone.bottom - 10, for the average zone of the terrain
\* as the frame scrolled it, and only if
\* safeZone.bottom - height - 10 > safeZone.top + 10; when spawnEnemy finds
\* the corridor too narrow it creates nothing: it is too narrow indeed, and
\* the frame adds no enemy and uses no id for one.
C22_EnemyPlacement ==
  [][HasCollections /\ HasCollections' /\ op' = "update" =>
       LET zone == terrainGetSafeZone(world'.terrain)
           events == world'.events
       IN /\ \A i \in SpawnedEnemies(events) :
                LET height == ENEMY_TYPES[events[i].type].height
                IN /\ events[i].x = game.canvas.width + 50
                   /\ zone.sumTop + 10 * zone.count
                        <= events[i].y * zone.count
                   /\ (events[i].y + height + 10) * zone.count
                        <= zone.sumBottom
                   /\ zone.sumBottom - zone.sumTop
                        > (height + 20) * zone.count
          /\ \A i \in 1..Len(events) :
                events[i].call = "noSpawn" =>
                  /\ zone.sumBottom - zone.sumTop
                       <= (ENEMY_TYPES[events[i].type].height + 20) * zone.count
                  /\ SpawnedEnemies(events) = {}
                  /\ \A j \in 1..Len(world'.enemies) :
                        world'.enemies[j].id < world.nextId]_vars

\* a frame on the short canvas over raised terrain (corridor 65..90): the
\* spawn manager drew a rocket (height 12) and created none
C22_Witness ==
  /\ HasCollections
  /\ op = "update"
  /\ game.canvas.height = 190
  /\ \E i \in 1..Len(world.events) : world.events[i].call = "noSpawn"
  /\ world.enemies = <<>>
  /\ terrainGetSafeZone(world.terrain).sumTop
       = 65 * terrainGetSafeZone(world.terrain).count

\* segment.x <= x < segment.x + width
Covers(segment, x) ==
  /\ DLe(segment.x, x)
  /\ DLt(x, DAdd(segment.x, DInt(SegmentWidth)))

\* the bounds of the stage's base heights
BaseBounds(t) ==
  [top |-> getStage(t.stage).baseTopHeight,
   bottom |-> t.canvasHeight - getStage(t.stage).baseBottomHeight]

\* b is what a segment covering x gives, or the base bounds if none covers x
BoundsAsClaimed(t, x, b) ==
  LET covering == {i \in 1..Len(t.segments) : Covers(t.segments[i], x)}
  IN IF covering = {} THEN b = BaseBounds(t)
     ELSE \E i \in covering :
            b = [top |-> t.segments[i].topHeight,
                 bottom |-> t.canvasHeight - t.segments[i].bottomHeight]

\* the spawn position, the left edge of the terrain and its right end
BoundsPositions(t) ==
  {DInt(t.canvasWidth + 50)}
    \cup (IF t.segments = <<>> THEN {}
          ELSE {t.segments[1].x,
                DAdd(t.segments[Len(t.segments)].x, DInt(SegmentWidth))})

\* C23: getBoundsAt(x) gives, for the terrain of every frame and for the
\* same terrain without segments, the top height and canvasHeight -
\* bottomHeight of a segment with segment.x <= x < segment.x + width, or the
\* stage's base top height and canvasHeight - base bottom height if there
\* is none; a ground target that a frame spawns stands at
\* x = canvasWidth + 50 on that bottom bound (less its height and its
\* floatHeight), which is the base floor as long as no segment covers
\* canvasWidth + 50.
C23_BoundsAt ==
  (HasCollections /\ "segments" \in DOMAIN world.terrain) =>
    /\ \A x \in BoundsPositions(world.terrain) :
          /\ BoundsAsClaimed(world.terrain, x, getBoundsAt(world.terrain, x))
          /\ getBoundsAt([world.terrain EXCEPT !.segments = <<>>], x)
               = BaseBounds(world.terrain)
    /\ \A i \in 1..Len(world.events) :
          (world.events[i].call = "spawn" /\ world.events[i].kind = "target") =>
            LET e == world.events[i]
                config == GROUND_TARGET_TYPES[e.type]
                x == DInt(game.canvas.width + 50)
            IN /\ e.x = game.canvas.width + 50
               /\ BoundsAsClaimed(world.terrain, x,
                    [top |-> getBoundsAt(world.terrain, x).top,
                     bottom |-> e.y + config.height + config.floatHeight])
               /\ (\A j \in 1..Len(world.terrain.segments) :
                      ~Covers(world.terrain.segments[j], x))
                    => e.y = BaseBounds(world.terrain).bottom - config.height
                               - config.floatHeight

\* a ground target spawned over raised terrain before a segment covers
\* canvasWidth + 50: it stands on the base floor, above the last segment's
C23_Witness ==
  /\ HasCollections
  /\ op = "update"
  /\ world.terrain.noiseOffset = "raised"
  /\ \A j \in 1..Len(world.terrain.segments) :
        ~Covers(world.terrain.segments[j], DInt(game.canvas.width + 50))
  /\ \E i \in 1..Len(world.events) :
        /\ world.events[i].call = "spawn"
        /\ world.events[i].kind = "target"
        /\ world.events[i].y + GROUND_TARGET_TYPES[world.events[i].type].height
             + GROUND_TARGET_TYPES[world.events[i].type].floatHeight
             = BaseBounds(world.terrain).bottom
        /\ BaseBounds(world.terrain).bottom
             # world.terrain.canvasHeight
                 - world.terrain.segments[Len(world.terrain.segments)].bottomHeight

\* the entities in the four arrays of the collections w
Stored(w) ==
  Range(w.enemies) \cup Range(w.groundTargets) \cup Range(w.bullets)
    \cup Range(w.bombs)

\* the ids of the stored entities that are not active
InactiveIds(w) == {e.id : e \in {e \in Stored(w) : ~e.active}}

\* the number of the calls named name in a frame's calls
CallCount(calls, name) ==
  Cardinality({i \in 1..Len(calls) : calls[i].call = name})

\* the event e is a collision that involves an entity of ids
Involves(e, ids) ==
  \/ e.call \in {"bulletEnemy", "bombTarget", "bulletTarget"}
       /\ (e.by \in ids \/ e.id \in ids)
  \/ e.call = "bulletPlayer" /\ e.by \in ids
  \/ e.call \in {"bodyCollision", "offScreen"} /\ e.id \in ids

\* C24: an entity that is stored inactive is never stored active later; the
\* next PLAYING frame removes it from its array, and in that frame it takes
\* part in no collision, does not leave the screen once more and, if it is
\* a bomb, does not explode on the terrain: the frame's score additions and
\* player hits are those of the collisions of the other entities.  The
\* steps between two PLAYING frames leave the arrays alone or empty them,
\* and no particle is stored with no life left.
C24_DeactivationTerminal ==
  [][(HasCollections /\ HasCollections') =>
       LET dead == InactiveIds(world)
           events == world'.events
       IN /\ \A e \in Stored(world') : e.id \in dead => ~e.active
          /\ \A i \in 1..Len(world'.particles) : world'.particles[i] > 0
          /\ (game.state = PLAYING /\ op' = "update") =>
               /\ \A e \in Stored(world') : e.id \notin dead
               /\ \A k \in 1..Len(events) :
                     /\ ~Involves(events[k], dead)
                     /\ (events[k].call = "bombMoved"
                           /\ events[k].bomb.id \in dead) =>
                          /\ ~events[k].bomb.active
                          /\ events[k].wall = "none"
                          /\ k < Len(events) =>
                               events[k + 1].call # "explosion"
               /\ CallCount(trace', "addScore")
                    = Cardinality({k \in 1..Len(events) :
                         /\ events[k].call \in {"bulletEnemy", "bombTarget",
                                                 "bulletTarget"}
                         /\ events[k].destroyed})
               /\ CallCount(trace', "playerHit")
                    = Cardinality({k \in 1..Len(events) :
                         events[k].call \in {"bulletPlayer", "bodyCollision"}})
          /\ ~(game.state = PLAYING /\ op' = "update") =>
               /\ world'.enemies \in {world.enemies, <<>>}
               /\ world'.groundTargets \in {world.groundTargets, <<>>}
               /\ world'.bullets \in {world.bullets, <<>>}
               /\ world'.bombs \in {world.bombs, <<>>}]_vars

\* a bomb that destroyed a ground target in the frame before has been moved
\* into the ground, inside the screen bounds, and removed without explosion
C24_Witness ==
  /\ HasCollections
  /\ op = "update"
  /\ world.bombs = <<>>
  /\ \E i \in MovedBombs :
        /\ ~world.events[i].bomb.active
        /\ OverlapsWall(world.events[i].bomb)
        /\ DLe(world.events[i].bomb.y, DInt(game.canvas.height + 20))
        /\ DLe(world.events[i].bomb.x, DInt(game.canvas.width + 20))
        /\ world.events[i].wall = "none"
        /\ \A k \in 1..Len(world.events) :
              world.events[k].call # "explosion"

\* the positions of the observer's notifications in a frame's calls
Notifications(calls) == {i \in 1..Len(calls) : calls[i].call = "setState"}

\* C25: the state field changes only in transitions that notify the
\* observer, once each, with (new state, previous state, {}): the
\* notifications of a step lead from the state before it to the state after
\* it.  The observer finds the state field changed and the timer 0, not yet
\* the 120 of STAGE_TRANSITION, and on entering GAME_OVER or VICTORY it finds
\* the best score and the stored item as they were: a new best score is
\* written directly after the notification.
C25_ObserverNotified ==
  [][LET calls == trace'
         told == Notifications(calls)
     IN /\ \A i \in told :
              /\ calls[i].data = EmptyObject
              /\ calls[i].seen.state = calls[i].new
              /\ calls[i].seen.stateTimer = 0
              /\ \A j \in told : (j < i /\ \A k \in told : ~(j < k /\ k < i))
                    => calls[i].old = calls[j].new
              /\ (\A j \in told : j <= i) => calls[i].new = game'.state
              /\ calls[i].new \in Terminal =>
                    /\ storedBest(calls[i].seen.storage) = calls[i].seen.bestScore
                    /\ IF i < Len(calls) /\ calls[i + 1].call = "save"
                         THEN calls[i + 1].value > calls[i].seen.bestScore
                         ELSE game'.bestScore = calls[i].seen.bestScore
        /\ op' \in {"start", "update", "pause"} =>
              /\ \A i \in told : (\A j \in told : i <= j)
                    => calls[i].old = game.state
              /\ told = {} => game'.state = game.state
        /\ \A i \in 1..Len(calls) :
              calls[i].call = "save" => i - 1 \in told]_vars

\* the frame that ended the game with a new best score: the observer was
\* told of GAME_OVER while the best score was still the one before
C25_Witness ==
  /\ game.state = GAME_OVER
  /\ op = "update"
  /\ \E i \in Notifications(trace) :
        /\ trace[i].new = GAME_OVER
        /\ trace[i].old = PLAYING
        /\ trace[i].seen.bestScore < game.bestScore
        /\ i < Len(trace)
        /\ trace[i + 1].call = "save"
        /\ storage = toString(game.bestScore)

C30_SinglePlayer ==
  /\ Cardinality({i \in 1..Len(nostr.sets) :
                    nostr.sets[i].replaced # NoStored}) <= 1
  /\ \A i \in 1..Len(nostr.sets) : nostr.sets[i].replaced = NoStored
  /\ \A c \in 1..Len(nostr.calls) :
        nostr.calls[c].pc = "done" =>
          /\ nostr.calls[c].stored # NoStored
          /\ nostr.calls[c].result = JSONparse(nostr.calls[c].stored)

\* the playerHit calls of a frame's calls
CombatHits(calls) == {i \in 1..Len(calls) : calls[i].call = "playerHit"}

\* a PLAYING frame is run by the step
PlayingFrame == game.state = PLAYING /\ op' \in {"update", "play"}

\* C28 as stated: a combat hit in the collision resolution of any of the
\* 120 PLAYING frames that follow a combat hit which took a life takes no
\* life.
C28_Original ==
  [][\A i \in CombatHits(trace') :
        trace'[i].since \in 1..InvincibleDuration => ~trace'[i].wasHit]_vars

\* C28: a combat hit on a player who is not invincible takes a life and
\* sets the timer to 120.  With no terrain crash since, the player is
\* invincible with timer 120 - k after the k-th PLAYING frame that follows,
\* k < 120, and neither invincible nor at a timer other than 0 after the
\* 120th; a step that runs no PLAYING frame (pause, PAUSED, stage
\* transition) leaves the player as it is.  Combat hits in the rest of the
\* frame of the hit and in the 119 PLAYING frames after it take no life; in
\* the 120th frame Player.update ends the invincibility before the
\* collisions are resolved, and a combat hit in it takes a life.
C28_Invincibility ==
  [][/\ \A i \in CombatHits(trace') :
          /\ trace'[i].since \in 0..(InvincibleDuration - 1)
               => ~trace'[i].wasHit /\ trace'[i].after = trace'[i].before
          /\ trace'[i].since = InvincibleDuration => trace'[i].wasHit
          /\ trace'[i].wasHit =>
               /\ ~trace'[i].before.isInvincible
               /\ trace'[i].after.lives = trace'[i].before.lives - 1
               /\ trace'[i].after.isInvincible
               /\ trace'[i].after.invincibleTimer = 120
     /\ (frames'.hit \in 0..(InvincibleDuration - 1)
          /\ game'.state \in {PLAYING, PAUSED, STAGE_TRANSITION}) =>
          /\ player'.isInvincible
          /\ player'.invincibleTimer = 120 - frames'.hit
     /\ frames'.hit = InvincibleDuration =>
          ~player'.isInvincible /\ player'.invincibleTimer = 0
     /\ (PlayingFrame /\ op' = "update" /\ frames.hit # NoHit
          /\ CombatHits(trace') = {}
          /\ \A i \in 1..Len(trace') : trace'[i].call # "playerCrash") =>
          /\ frames'.hit = FramesSinceHit(frames.hit)
          /\ player'.lives = player.lives
     /\ (op' \in {"update", "pause"} /\ game.state # PLAYING) =>
          player' = player /\ frames'.hit = frames.hit]_vars

\* the 120th PLAYING frame after a hostile bullet took a life: the next
\* bullet took another one
C28_Witness ==
  /\ op = "update"
  /\ player.lives = 1
  /\ player.isInvincible
  /\ player.invincibleTimer = 120
  /\ frames.play = 121
  /\ \E i \in CombatHits(trace) :
        /\ trace[i].since = InvincibleDuration
        /\ trace[i].wasHit
        /\ trace[i].before.lives = 2
        /\ trace[i].before.invincibleTimer = 0

\* the boxes of a and b overlap, whether the two are active or not
BoxesOverlap(a, b) ==
  collidesWith([a EXCEPT !.active = TRUE], [b EXCEPT !.active = TRUE])

\* the category of checkCollisions that an event belongs to, 0 for the
\* events of the other passes
CategoryRank(e) ==
  CASE e.call = "bulletEnemy" -> 1
    [] e.call = "bombTarget" -> 2
    [] e.call = "bulletTarget" -> 3
    [] e.call = "bulletPlayer" -> 4
    [] e.call = "bodyCollision" -> 5
    [] OTHER -> 0

\* the collisions among the events, and those of a player's projectile
Collisions(events) == {i \in 1..Len(events) : CategoryRank(events[i]) > 0}
ProjectileHits(events) ==
  {i \in 1..Len(events) : CategoryRank(events[i]) \in {1, 2, 3}}

\* the stored entity with the id given
StoredAs(w, id) == CHOOSE e \in Stored(w) : e.id = id

\* C27: the collisions of a frame are resolved in the order player bullets
\* x enemies, bombs x ground targets, player bullets x ground targets,
\* hostile bullets x player, player x enemies.  A player bullet or bomb has
\* at most one effect: one collision per frame, none if it was inactive
\* before or exploded on the terrain in this frame, and it is inactive
\* afterwards.  A bullet that hit a ground target overlaps no enemy that is
\* still active, and the target it hit is overlapped by no bomb that is
\* still active: the earlier category would have taken them.  A target is
\* destroyed once, and the bursts of 12 particles are those of the targets
\* that bombs destroyed.
C27_CollisionOrder ==
  [][(HasCollections /\ HasCollections' /\ op' = "update") =>
       LET events == world'.events
       IN /\ \A i \in Collisions(events), j \in Collisions(events) :
               i < j => CategoryRank(events[i]) <= CategoryRank(events[j])
          /\ \A i \in ProjectileHits(events) :
               /\ \A j \in ProjectileHits(events) :
                     i # j => events[i].by # events[j].by
               /\ events[i].by \notin InactiveIds(world)
               /\ events[i].by \in InactiveIds(world')
               /\ \A k \in 1..Len(events) :
                     (events[k].call = "bombMoved"
                       /\ events[k].bomb.id = events[i].by)
                       => events[k].wall = "none" /\ events[k].bomb.active
          /\ \A i \in ProjectileHits(events) :
               events[i].call = "bulletTarget" =>
                 /\ \A e \in Range(world'.enemies) :
                       e.active =>
                         ~BoxesOverlap(StoredAs(world', events[i].by), e)
                 /\ \A b \in Range(world'.bombs) :
                       b.active =>
                         ~BoxesOverlap(b, StoredAs(world', events[i].id))
          /\ \A i \in ProjectileHits(events), j \in ProjectileHits(events) :
               (i # j /\ CategoryRank(events[i]) > 1
                 /\ CategoryRank(events[j]) > 1)
                 => events[i].id # events[j].id
          /\ Cardinality({i \in 1..Len(trace') :
                            trace'[i] = [call |-> "explosion", count |-> 12]})
               = Cardinality({i \in 1..Len(events) :
                                events[i].call = "bombTarget"})]_vars

\* a bomb and a bullet of the player overlapped a fuel tank in one frame:
\* the bomb destroyed it with a burst of 12 and the bullet is still active
C27_Witness ==
  /\ HasCollections
  /\ op = "update"
  /\ \E i \in 1..Len(world.events), b \in Range(world.bullets) :
        /\ world.events[i].call = "bombTarget"
        /\ ~StoredAs(world, world.events[i].by).active
        /\ ~StoredAs(world, world.events[i].id).active
        /\ b.isPlayerBullet
        /\ b.active
        /\ BoxesOverlap(b, StoredAs(world, world.events[i].id))
  /\ \E i \in 1..Len(trace) : trace[i] = [call |-> "explosion", count |-> 12]
  /\ \A i \in 1..Len(world.events) : world.events[i].call # "bulletTarget"

\* a bullet overlapped a rocket in flight and a ground rocket: the rocket
\* in flight was destroyed and the ground rocket is still active
C27_BulletAtTwo ==
  /\ HasCollections
  /\ op = "update"
  /\ \E i \in 1..Len(world.events), g \in Range(world.groundTargets) :
        /\ world.events[i].call = "bulletEnemy"
        /\ g.active
        /\ BoxesOverlap(StoredAs(world, world.events[i].by), g)
        /\ BoxesOverlap(StoredAs(world, world.events[i].by),
                        StoredAs(world, world.events[i].id))

\* the ids of the entities of a collection
Ids(entities) == {e.id : e \in Range(entities)}

\* the events of the kind named that name the entity id
EventsOn(events, name, id) ==
  {i \in 1..Len(events) : events[i].call = name /\ events[i].id = id}

\* entity has left the screen on the left when it has moved by speed
LeavesLeft(entity, speed) ==
  DLt(DAdd(DSub(entity.x, speed), DInt(entity.width)), DInt(-50))

\* C29: in a PLAYING frame an enemy is found inactive only if a player's
\* bullet brought its health to 0 or below or the player collided with it,
\* and is removed while active only if its move took it past the left edge
\* (x + width < -50); a ground target is found inactive only if a bomb or a
\* player's bullet hit it, and is removed while active only past the left
\* edge.  An enemy's health is lowered by the hits of the player's bullets
\* and by nothing else; what the bullets hit they hit as player bullets,
\* bombs hit ground targets only, and the player is hit by hostile bullets
\* and enemies only: the lives lost are those of the playerHit calls for
\* them and of the crash.
C29_DeactivationCauses ==
  [][(HasCollections /\ HasCollections' /\ game.state = PLAYING
       /\ op' = "update") =>
       LET events == world'.events
       IN /\ \A e \in Range(world'.enemies) :
               /\ ~e.active =>
                    \/ /\ e.health <= 0
                       /\ EventsOn(events, "bulletEnemy", e.id) # {}
                    \/ EventsOn(events, "bodyCollision", e.id) # {}
               /\ \A e0 \in Range(world.enemies) :
                    e0.id = e.id =>
                      e.health = e0.health
                        - Cardinality(EventsOn(events, "bulletEnemy", e.id))
          /\ \A g \in Range(world'.groundTargets) :
               ~g.active =>
                 \/ EventsOn(events, "bombTarget", g.id) # {}
                 \/ EventsOn(events, "bulletTarget", g.id) # {}
          /\ \A e \in Range(world.enemies) :
               (e.active /\ e.id \notin Ids(world'.enemies)) =>
                 /\ EventsOn(events, "offScreen", e.id) # {}
                 /\ LeavesLeft(e, DAdd(game.scrollSpeed, DInt(e.speed)))
          /\ \A g \in Range(world.groundTargets) :
               (g.active /\ g.id \notin Ids(world'.groundTargets)) =>
                 /\ EventsOn(events, "offScreen", g.id) # {}
                 /\ LeavesLeft(g, game.scrollSpeed)
          /\ \A i \in 1..Len(events) :
               /\ events[i].call \in {"bulletEnemy", "bulletTarget"} =>
                    /\ events[i].by \in Ids(world'.bullets)
                    /\ StoredAs(world', events[i].by).isPlayerBullet
               /\ events[i].call = "bulletEnemy" =>
                    events[i].id \in Ids(world'.enemies)
               /\ events[i].call \in {"bombTarget", "bulletTarget"} =>
                    events[i].id \in Ids(world'.groundTargets)
               /\ events[i].call = "bombTarget" =>
                    events[i].by \in Ids(world'.bombs)
               /\ events[i].call = "bulletPlayer" =>
                    /\ events[i].by \in Ids(world'.bullets)
                    /\ ~StoredAs(world', events[i].by).isPlayerBullet
               /\ events[i].call = "bodyCollision" =>
                    events[i].id \in Ids(world'.enemies)
          /\ CallCount(trace', "playerHit")
               = Cardinality({i \in 1..Len(events) :
                    events[i].call \in {"bulletPlayer", "bodyCollision"}})
          /\ player'.lives
               = player.lives
                   - Cardinality({i \in CombatHits(trace') : trace'[i].wasHit})
                   - CallCount(trace', "playerCrash")]_vars

\* a rocket collided with the player, who was invincible from the rocket
\* before: it is destroyed and the player has lost nothing
C29_Witness ==
  /\ HasCollections
  /\ op = "update"
  /\ player.lives = 2
  /\ player.isInvincible
  /\ player.invincibleTimer < 120
  /\ \E i \in 1..Len(world.events) :
        /\ world.events[i].call = "bodyCollision"
        /\ ~StoredAs(world, world.events[i].id).active
        /\ StoredAs(world, world.events[i].id).health = 1
  /\ \E i \in CombatHits(trace) : ~trace[i].wasHit

\* the player's box overlaps a ground rocket that is active; nothing was hit
C29_OverTarget ==
  /\ HasCollections
  /\ op = "update"
  /\ \E g \in Range(world.groundTargets) :
        g.active /\ BoxesOverlap(PlayerEntity(player), g)
  /\ player.lives = 3
  /\ world.events = <<>>
  /\ trace = <<>>

\* a bomb of the player overlaps an enemy and both are active
C29_BombAtEnemy ==
  /\ HasCollections
  /\ op = "update"
  /\ \E b \in Range(world.bombs), e \in Range(world.enemies) :
        b.active /\ e.active /\ BoxesOverlap(b, e)

\* the playerHit calls of calls that took a life
LifeTakingHits(calls) == {i \in CombatHits(calls) : calls[i].wasHit}

\* C31: a step that is not a start leaves lives where it was or lowers it by
\* at most 2: one display frame has at most one combat hit that takes a life
\* and at most one crash resolution, and lives falls by exactly their number.
C31_LivesPerFrame ==
  [][(game.running /\ op' \in {"update", "pause"}) =>
        /\ Cardinality(LifeTakingHits(trace')) <= 1
        /\ CallCount(trace', "playerCrash") <= 1
        /\ player'.lives = player.lives
                             - Cardinality(LifeTakingHits(trace'))
                             - CallCount(trace', "playerCrash")
        /\ player'.lives <= player.lives
        /\ player'.lives >= player.lives - 2]_vars

\* a frame in which a hostile bullet took a life, the collision with an enemy
\* that followed took none, and the terrain crash took another
C31_Witness ==
  /\ op = "update"
  /\ Cardinality(CombatHits(trace)) = 2
  /\ Cardinality(LifeTakingHits(trace)) = 1
  /\ CallCount(trace, "playerCrash") = 1
  /\ player.lives = PlayerLives - 2

(***************************************************************************)
(* A game played to its end: the game is started once, as one of the       *)
(* LiveScripts says (a fuel tank every 500 frames), and then the display   *)
(* frames follow one by one, the first with any of the LiveEnvs and the    *)
(* others undisturbed; pause() is called at any time.  The loop runs a     *)
(* frame on every display refresh, so a game that is again and again not   *)
(* paused has its frames processed (SF), and a pause is ended (WF).        *)
(* TLC evaluates ENABLED of a whole frame very slowly; the fairness of the *)
(* frames is therefore stated with the enabling condition written out.     *)
(***************************************************************************)
LiveEnvs == {QuietEnv, CrashEnv, HitEnv, PickupEnv}

LiveScripts ==
  {Times(k, << [env |-> QuietEnv, n |-> 499], [env |-> PickupEnv, n |-> 1] >>) :
     k \in {0, 4, 8, 11}}

LivePlay ==
  /\ game.state = START_SCREEN
  /\ \E script \in LiveScripts : Becomes(RunScript(start(Cur), script))
  /\ op' = "play"
  /\ UNCHANGED <<budget, restarts>>

LiveFrame ==
  /\ game.running
  /\ \E env \in LiveEnvs :
        /\ env = QuietEnv \/ (game.state = PLAYING /\ budget < MaxFrames)
        /\ Becomes(gameLoop(Cur, env))
  /\ op' = "update"
  /\ budget' = IF game.state = PLAYING /\ budget < MaxFrames
                 THEN budget + 1 ELSE budget
  /\ UNCHANGED restarts

\* a frame can be processed and changes the game: the loop runs and the game
\* is neither paused nor over (this is ENABLED <<ActiveFrame>>_vars)
FrameEnabled == game.running /\ game.state \in {PLAYING, STAGE_TRANSITION}

\* a frame of a game that is neither paused nor over: of the steps of
\* LiveNext the frames alone leave op = "update"
ActiveFrame == FrameEnabled /\ op' = "update"

\* the pause is ended
Resume == game.state = PAUSED /\ Pause

LiveNext == LivePlay \/ LiveFrame \/ Pause

\* strong fairness of ActiveFrame, with its enabling condition written out,
\* and weak fairness of Resume
LiveSpec ==
  /\ Init /\ [][LiveNext]_vars
  /\ ([]<><<ActiveFrame>>_vars \/ <>[]~FrameEnabled)
  /\ WF_vars(Resume)

Ended == game.state \in {GAME_OVER, VICTORY}

Abs(n) == IF n < 0 THEN -n ELSE n

\* the frames an entity can have been updated in and still be stored: an
\* enemy or ground target goes from canvasWidth + 50 to -50 - width at 1.8
\* or more a frame (and the enemy at its own speed on top); a bullet crosses
\* the screen and its margins of 20 at its velocity; a bomb falls the
\* screen's height and the margin with the acceleration 0.15 from rest
EnemyFrames(e, canvas) ==
  (10 * (canvas.width + 100 + e.width)) \div (18 + 10 * e.speed)
GroundTargetFrames(g, canvas) == (10 * (canvas.width + 100 + g.width)) \div 18
BulletFrames(b, canvas) ==
  IF b.velocityX # 0 THEN (canvas.width + 40) \div Abs(b.velocityX)
  ELSE (canvas.height + 40) \div Abs(b.velocityY)
BombOutlived(b, canvas) == 3 * b.age * (b.age + 1) > 40 * (canvas.height + 20)
ParticleFrames == 45

\* the entities of world' that world stores under the same id were updated
\* once
UpdatedOnce(before, after) ==
  \A a \in Range(after) : \A b \in Range(before) :
     a.id = b.id => a.age = b.age + 1

\* C33: a stored enemy, ground target, bullet or bomb has been updated in
\* no more frames than its way across the screen takes, and a particle has
\* between 1 and 45 frames to live; every PLAYING frame updates every entity
\* it keeps and removes the inactive ones, and every frame in any state
\* takes a frame of life from every particle and removes the spent ones.
C33_BoundedStorage ==
  /\ [](HasCollections =>
          /\ \A e \in Range(world.enemies) :
                e.age <= EnemyFrames(e, game.canvas)
          /\ \A g \in Range(world.groundTargets) :
                g.age <= GroundTargetFrames(g, game.canvas)
          /\ \A b \in Range(world.bullets) :
                /\ b.velocityX # 0 \/ b.velocityY # 0
                /\ b.age <= BulletFrames(b, game.canvas)
          /\ \A b \in Range(world.bombs) : ~BombOutlived(b, game.canvas)
          /\ \A i \in 1..Len(world.particles) :
                world.particles[i] \in 1..ParticleFrames)
  /\ [][(HasCollections /\ HasCollections' /\ op' = "update") =>
          /\ Len(world'.particles) >= Len(Aged(world.particles))
          /\ SubSeq(world'.particles, 1, Len(Aged(world.particles)))
               = Aged(world.particles)
          /\ game.state = PLAYING =>
               /\ UpdatedOnce(world.enemies, world'.enemies)
               /\ UpdatedOnce(world.groundTargets, world'.groundTargets)
               /\ UpdatedOnce(world.bullets, world'.bullets)
               /\ UpdatedOnce(world.bombs, world'.bombs)
               /\ \A e \in Stored(world') : e.id \notin InactiveIds(world)]_vars

\* a rocket in the last frame of its way: one more move takes it past the
\* left edge
C33_Witness ==
  /\ HasCollections
  /\ \E e \in Range(world.enemies) :
        /\ e.active
        /\ e.age > 40
        /\ LeavesLeft(e, DAdd(game.scrollSpeed, DInt(e.speed)))

(***************************************************************************)
(* The game loop on the display: start()/restart() and pause() are called  *)
(* by the page between the display refreshes, in any state; a refresh      *)
(* calls the animation-frame callbacks that were requested before it.      *)
(***************************************************************************)
MaxRefreshes == 3

LoopEnvs == {QuietEnv, CrashEnv, [QuietEnv EXCEPT !.input.shoot = TRUE]}

Refresh ==
  /\ game.callbacks > 0
  /\ budget < MaxRefreshes
  /\ \E env \in LoopEnvs : Becomes(displayFrame(Cur, env))
  /\ op' = "update"
  /\ budget' = budget + 1
  /\ UNCHANGED restarts

LoopNext == Start \/ Refresh \/ Pause

LoopSpec == Init /\ [][LoopNext]_vars

C35_StateAndStage ==
  /\ game.state = GAME_OVER => player.lives <= 0
  /\ game.state = VICTORY => game.currentStage = getTotalStages
  /\ game.state \in {PLAYING, PAUSED, STAGE_TRANSITION} =>
       game.currentStage \in 0..(getTotalStages - 1)

\* the last stage transition has ended in VICTORY
C35_Witness ==
  /\ game.state = VICTORY
  /\ op = "update"
  /\ game.stateTimer = 0
  /\ game.currentStage = Len(STAGES)
  /\ player.lives > 0

(***************************************************************************)
(* Weapons: a game is started, or started and flown undisturbed to a few   *)
(* frames before the end of stage 1, and then each PLAYING frame has the   *)
(* shoot and bomb keys up or down as the player likes, MaxWeaponFrames     *)
(* frames long in each run; the page pauses and restarts when it likes.    *)
(***************************************************************************)
MaxWeaponFrames == 32

WeaponEnvs ==
  {QuietEnv,
   [QuietEnv EXCEPT !.input.shoot = TRUE],
   [QuietEnv EXCEPT !.input.shoot = TRUE, !.input.bomb = TRUE]}

WeaponScripts == { <<>>, << [env |-> QuietEnv, n |-> 995] >> }

WeaponPlay ==
  /\ game.state = START_SCREEN
  /\ \E script \in WeaponScripts : Becomes(RunScript(start(Cur), script))
  /\ op' = "play"
  /\ UNCHANGED <<budget, restarts>>

WeaponFrame ==
  /\ game.running
  /\ \E env \in WeaponEnvs :
        /\ env = QuietEnv \/ (game.state = PLAYING /\ budget < MaxWeaponFrames)
        /\ game.state = PLAYING => budget < MaxWeaponFrames
        /\ Becomes(gameLoop(Cur, env))
  /\ op' = "update"
  /\ budget' = IF game.state = PLAYING THEN budget + 1 ELSE budget
  /\ UNCHANGED restarts

\* restart(), which is start(), called in a game that was started; the player is
\* given MaxWeaponFrames frames again
WeaponRestart ==
  /\ game.state # START_SCREEN
  /\ restarts < MaxRestarts
  /\ Becomes(start(Cur))
  /\ op' = "start"
  /\ restarts' = restarts + 1
  /\ budget' = 0

WeaponNext == WeaponPlay \/ WeaponFrame \/ WeaponRestart \/ Pause

WeaponSpec == Init /\ [][WeaponNext]_vars

Created(calls, what) == {i \in DOMAIN calls : calls[i].call = what}

HasPlayer == "shootCooldown" \in DOMAIN player

\* the step is one PLAYING frame
OnePlayingFrame == game.running /\ game.state = PLAYING /\ op' = "update"

\* what a PLAYING frame does with the weapons: a bullet is created if and
\* only if shoot is down and the last bullet of this run is
\* ShootCooldownMax frames old or older (bombs: BombCooldownMax)
WeaponsInFrame ==
  OnePlayingFrame =>
    /\ Cardinality(Created(trace', "bullet")) <= 1
    /\ Cardinality(Created(trace', "bomb")) <= 1
    /\ Created(trace', "bullet") # {}
         <=> frames'.keys.shoot /\ frames.shot >= ShootCooldownMax - 1
    /\ Created(trace', "bomb") # {}
         <=> frames'.keys.bomb /\ frames.bomb >= BombCooldownMax - 1

CooldownsKept ==
  /\ player'.shootCooldown = player.shootCooldown
  /\ player'.bombCooldown = player.bombCooldown

\* C36 as the specification states it: at most one bullet and one bomb per
\* frame, no bullet in the 9 PLAYING frames after a shot and one every 10
\* frames with shoot held (bombs: 30), the counters within 0..10 and 0..30,
\* and the counters change in PLAYING frames only
C36_Original ==
  /\ [](HasPlayer => /\ player.shootCooldown \in 0..ShootCooldownMax
                     /\ player.bombCooldown \in 0..BombCooldownMax)
  /\ [][/\ WeaponsInFrame
        /\ (HasPlayer /\ ~OnePlayingFrame) => CooldownsKept]_vars

\* C36: within a run (from one start() or restart() to the next) at most one
\* bullet and one bomb are created per frame, no bullet is created in the 9
\* PLAYING frames after a shot and, with shoot held, one is created every 10
\* PLAYING frames (bombs: 30); the counters stay within 0..10 and 0..30 and
\* change only in PLAYING frames and in start(), which sets both to 0
C36_Cooldowns ==
  /\ [](HasPlayer => /\ player.shootCooldown \in 0..ShootCooldownMax
                     /\ player.bombCooldown \in 0..BombCooldownMax)
  /\ [][/\ WeaponsInFrame
        /\ (HasPlayer /\ ~OnePlayingFrame /\ op' # "start") => CooldownsKept
        /\ op' = "start" => /\ player'.shootCooldown = 0
                            /\ player'.bombCooldown = 0]_vars

\* shoot and bomb were held from the start: the fourth bullet and the second
\* bomb are created in frame 31
C36_Witness ==
  /\ op = "update"
  /\ restarts = 0
  /\ frames.play = BombCooldownMax + 1
  /\ budget = BombCooldownMax + 1
  /\ Created(trace, "bullet") # {}
  /\ Created(trace, "bomb") # {}

\* the step is the update that ends a stage transition and enters a stage
EntersNextStage ==
  /\ HasCollections
  /\ game.state = STAGE_TRANSITION
  /\ op' = "update"
  /\ game'.state = PLAYING

\* C37: the update that enters the next stage (advanceStage, initStage)
\* leaves score, bestScore, the stored best score and the whole player as
\* they are (no fuel is added), sets distance to 0 and the scroll speed to
\* the new stage's, creates a terrain and a spawn manager of the new stage,
\* and empties the enemies, ground targets, bullets and bombs
C37_InitStage ==
  [][EntersNextStage =>
       /\ game'.score = game.score
       /\ game'.bestScore = game.bestScore
       /\ storage' = storage
       /\ player' = player
       /\ game'.distance = DZero
       /\ game'.scrollSpeed = getStage(game'.currentStage).scrollSpeed
       /\ \E noiseOffset \in NoiseOffsets :
             world'.terrain = NewTerrain(game.canvas, game'.currentStage,
                                         noiseOffset)
       /\ world'.spawnStage = game'.currentStage
       /\ Stored(world') = {}
       /\ game' = [game EXCEPT !.state = PLAYING, !.stateTimer = 0,
                               !.currentStage = @ + 1, !.distance = DZero,
                               !.scrollSpeed = game'.scrollSpeed]]_vars

\* stage 2 has just been entered by a player with used fuel and both weapons
\* cooling down, whose bullet and bomb were on their way when stage 1 ended
C37_Witness ==
  /\ HasCollections
  /\ op = "update"
  /\ game.state = PLAYING
  /\ game.currentStage = 1
  /\ frames.stage = 0
  /\ frames.shot < ShootCooldownMax
  /\ player.bombCooldown > 0
  /\ DLt(player.fuel, DInt(MaxFuel))
  /\ Stored(world) = {}

\* a stage transition is ending with a bullet and a bomb in the collections
C37_BeforeInitStage ==
  /\ HasCollections
  /\ game.state = STAGE_TRANSITION
  /\ game.stateTimer = 1
  /\ world.bullets # <<>>
  /\ world.bombs # <<>>
  /\ player.bombCooldown > 0
====
